---- MODULE Spec2Model ----
(***************************************************************************)
(* Conversation memory of the natural-language-to-SQL assistant            *)
(* (src/llm/memory.py): token normalisation, Jaccard similarity, the       *)
(* JSON-backed ConversationMemory with its load / save / store /           *)
(* find_similar operations.                                                *)
(*                                                                         *)
(* Text is a sequence of one-character strings.  Python values are tagged  *)
(* records [k, v]: None, str, int, list, dict (an ordered sequence of      *)
(* <<key, value>> pairs).  A file is either absent or a sequence of JSON   *)
(* tokens, possibly cut short by a write that failed half-way.             *)
(***************************************************************************)
EXTENDS Integers, Sequences, FiniteSets, TLC

(***************************************************************************)
(* Bounds of the model.                                                    *)
(***************************************************************************)
MaxStores == 3
MaxReloadStores == 2
MaxRecallStores == 1
MaxCap == 2
MaxLen == 5
MaxTokens == 2
MaxWriterStores == 2
MaxRows == 2
MaxScripts == 3
MaxChatScripts == 4

(***************************************************************************)
(* Generic sequence helpers.                                               *)
(***************************************************************************)
Range(s) == {s[i] : i \in 1..Len(s)}

Last(s) == s[Len(s)]

Contains(s, x) == \E i \in 1..Len(s) : s[i] = x

RECURSIVE Concat(_)
Concat(ss) == IF ss = <<>> THEN <<>> ELSE Head(ss) \o Concat(Tail(ss))

SeqsUpTo(S, n) == UNION {[1..m -> S] : m \in 0..n}

(***************************************************************************)
(* Characters.                                                             *)
(***************************************************************************)
UpperCase == <<"A","B","C","D","E","F","G","H","I","J","K","L","M",
               "N","O","P","Q","R","S","T","U","V","W","X","Y","Z">>

LowerCase == <<"a","b","c","d","e","f","g","h","i","j","k","l","m",
               "n","o","p","q","r","s","t","u","v","w","x","y","z">>

DigitChars == <<"0","1","2","3","4","5","6","7","8","9">>

Whitespace == {" ", "\t", "\n"}

\* str.lower() on one character
LowerChar(c) ==
    IF \E i \in 1..26 : UpperCase[i] = c
    THEN LowerCase[CHOOSE i \in 1..26 : UpperCase[i] = c]
    ELSE c

\* str.lower()
Lower(text) == [i \in 1..Len(text) |-> LowerChar(text[i])]

\* re.sub(r"[^a-z0-9\s]", " ", text)
StripPunct(text) ==
    [i \in 1..Len(text) |->
        IF text[i] \in Range(LowerCase) \cup Range(DigitChars) \cup Whitespace
        THEN text[i] ELSE " "]

\* str.split(): maximal runs of non-whitespace characters, in order
RECURSIVE SplitFrom(_, _, _)
SplitFrom(text, i, cur) ==
    IF i > Len(text)
    THEN IF cur = <<>> THEN <<>> ELSE <<cur>>
    ELSE IF text[i] \in Whitespace
         THEN IF cur = <<>> THEN SplitFrom(text, i + 1, <<>>)
                            ELSE <<cur>> \o SplitFrom(text, i + 1, <<>>)
         ELSE SplitFrom(text, i + 1, Append(cur, text[i]))

Split(text) == SplitFrom(text, 1, <<>>)

stopwords ==
    { <<"t","h","e">>, <<"i","s">>, <<"i","n">>, <<"a","t">>,
      <<"w","h","i","c","h">>, <<"o","n">>, <<"a","n","d">>, <<"a">>,
      <<"a","n">>, <<"o","f">>, <<"f","o","r">>, <<"t","o">>, <<"b","y">>,
      <<"w","i","t","h">>, <<"t","h","a","t">>, <<"t","h","i","s">>,
      <<"t","h","e","s","e">>, <<"t","h","o","s","e">>, <<"a","r","e">>,
      <<"b","e">> }

LongerThanOne(t) == Len(t) > 1

NotStopword(t) == t \notin stopwords

\* the bug of lower-casing only after the stop-word filter
StripPunctKeepCase(text) ==
    [i \in 1..Len(text) |->
        IF text[i] \in Range(UpperCase) \cup Range(LowerCase)
                         \cup Range(DigitChars) \cup Whitespace
        THEN text[i] ELSE " "]

NormalizeLowerLate(text) ==
    LET tokens == SelectSeq(Split(StripPunctKeepCase(text)), LongerThanOne)
        kept == SelectSeq(tokens, NotStopword)
    IN  [i \in 1..Len(kept) |-> Lower(kept[i])]

\* the bug of leaving the stop-word filter out
NormalizeKeepsStopwords(text) ==
    SelectSeq(Split(StripPunct(Lower(text))), LongerThanOne)

\* tokens = [t for t in text.split() if len(t) > 1];
\* return [t for t in tokens if t not in stopwords]
_normalize_text(text) ==
    LET tokens == SelectSeq(Split(StripPunct(Lower(text))), LongerThanOne)
    IN  SelectSeq(tokens, NotStopword)

\* " ".join(tokens)
RECURSIVE JoinSpace(_)
JoinSpace(tokens) ==
    IF tokens = <<>> THEN <<>>
    ELSE IF Len(tokens) = 1 THEN Head(tokens)
    ELSE Head(tokens) \o <<" ">> \o JoinSpace(Tail(tokens))

(***************************************************************************)
(* Jaccard similarity.  The float result is kept as the exact fraction     *)
(* num / den with den > 0.                                                 *)
(***************************************************************************)
\* the bug of counting list lengths instead of distinct tokens
JaccardByLength(a, b) ==
    LET set_a == Range(a)
        set_b == Range(b)
    IN  IF set_a = {} /\ set_b = {} THEN [num |-> 1, den |-> 1]
        ELSE IF set_a = {} \/ set_b = {} THEN [num |-> 0, den |-> 1]
        ELSE [num |-> Cardinality(set_a \cap set_b),
              den |-> Len(a) + Len(b) - Cardinality(set_a \cap set_b)]

_jaccard_similarity(a, b) ==
    LET set_a == Range(a)
        set_b == Range(b)
    IN  IF set_a = {} /\ set_b = {} THEN [num |-> 1, den |-> 1]
        ELSE IF set_a = {} \/ set_b = {} THEN [num |-> 0, den |-> 1]
        ELSE [num |-> Cardinality(set_a \cap set_b),
              den |-> Cardinality(set_a \cup set_b)]

(***************************************************************************)
(* Python values.                                                          *)
(***************************************************************************)
PyNone == [k |-> "none", v |-> <<>>]

PyStr(s) == [k |-> "str", v |-> s]

PyInt(n) == [k |-> "int", v |-> <<n>>]

PyList(xs) == [k |-> "list", v |-> xs]

\* a dict keeps its insertion order: a sequence of <<key, value>> pairs
PyDict(pairs) == [k |-> "dict", v |-> pairs]

\* d[key]
Get(d, key) == d.v[CHOOSE i \in 1..Len(d.v) : d.v[i][1] = key][2]

(***************************************************************************)
(* json.dump(obj, f, ensure_ascii=False, indent=2) and json.load(f), at    *)
(* the level of JSON tokens (the indentation is white space between        *)
(* tokens, which the decoder skips).                                       *)
(***************************************************************************)
Tok(t, v) == [t |-> t, v |-> v]

Punct(t) == Tok(t, <<>>)

\* the text of a JSON string: quote, backslash and control characters escaped
EscapeChar(c) ==
    IF c = "\"" THEN <<"\\", "\"">>
    ELSE IF c = "\\" THEN <<"\\", "\\">>
    ELSE IF c = "\n" THEN <<"\\", "n">>
    ELSE IF c = "\t" THEN <<"\\", "t">>
    ELSE <<c>>

Escape(s) == Concat([i \in 1..Len(s) |-> EscapeChar(s[i])])

\* the decoder's scan of a string body; ok is FALSE on a bad escape
RECURSIVE UnescapeFrom(_, _, _)
UnescapeFrom(body, i, acc) ==
    IF i > Len(body) THEN [ok |-> TRUE, s |-> acc]
    ELSE IF body[i] = "\\"
         THEN IF i + 1 > Len(body) THEN [ok |-> FALSE, s |-> <<>>]
              ELSE IF body[i + 1] = "\""
                   THEN UnescapeFrom(body, i + 2, Append(acc, "\""))
              ELSE IF body[i + 1] = "\\"
                   THEN UnescapeFrom(body, i + 2, Append(acc, "\\"))
              ELSE IF body[i + 1] = "n"
                   THEN UnescapeFrom(body, i + 2, Append(acc, "\n"))
              ELSE IF body[i + 1] = "t"
                   THEN UnescapeFrom(body, i + 2, Append(acc, "\t"))
              ELSE [ok |-> FALSE, s |-> <<>>]
         ELSE IF body[i] \in {"\"", "\n", "\t"}
              THEN [ok |-> FALSE, s |-> <<>>]
              ELSE UnescapeFrom(body, i + 1, Append(acc, body[i]))

Unescape(body) == UnescapeFrom(body, 1, <<>>)

\* the decimal text of a natural number
RECURSIVE IntToText(_)
IntToText(n) ==
    IF n < 10 THEN <<DigitChars[n + 1]>>
    ELSE Append(IntToText(n \div 10), DigitChars[(n % 10) + 1])

DigitValue(c) == (CHOOSE i \in 1..10 : DigitChars[i] = c) - 1

RECURSIVE TextToInt(_)
TextToInt(ds) ==
    IF Len(ds) = 1 THEN DigitValue(ds[1])
    ELSE 10 * TextToInt(SubSeq(ds, 1, Len(ds) - 1)) + DigitValue(Last(ds))

RECURSIVE json_dump(_)
RECURSIVE DumpItems(_)
RECURSIVE DumpMembers(_)

\* the bug of writing None as the string "None"
DumpNoneAsText(obj) ==
    IF obj.k = "none" THEN <<Tok("string", <<"N","o","n","e">>)>>
    ELSE IF obj.k = "str" THEN <<Tok("string", Escape(obj.v))>>
    ELSE IF obj.k = "int" THEN <<Tok("number", IntToText(obj.v[1]))>>
    ELSE IF obj.k = "list"
         THEN <<Punct("[")>> \o DumpItems(obj.v) \o <<Punct("]")>>
    ELSE <<Punct("{")>> \o DumpMembers(obj.v) \o <<Punct("}")>>

json_dump(obj) ==
    IF obj.k = "none" THEN <<Punct("null")>>
    ELSE IF obj.k = "str" THEN <<Tok("string", Escape(obj.v))>>
    ELSE IF obj.k = "int" THEN <<Tok("number", IntToText(obj.v[1]))>>
    ELSE IF obj.k = "list"
         THEN <<Punct("[")>> \o DumpItems(obj.v) \o <<Punct("]")>>
    ELSE <<Punct("{")>> \o DumpMembers(obj.v) \o <<Punct("}")>>

DumpItems(xs) ==
    IF xs = <<>> THEN <<>>
    ELSE json_dump(Head(xs))
         \o (IF Len(xs) > 1 THEN <<Punct(",")>> ELSE <<>>)
         \o DumpItems(Tail(xs))

DumpMembers(pairs) ==
    IF pairs = <<>> THEN <<>>
    ELSE <<Tok("string", Escape(Head(pairs)[1])), Punct(":")>>
         \o json_dump(Head(pairs)[2])
         \o (IF Len(pairs) > 1 THEN <<Punct(",")>> ELSE <<>>)
         \o DumpMembers(Tail(pairs))

ParseFail == [ok |-> FALSE, val |-> PyNone, next |-> 0]

RECURSIVE ParseValue(_, _)
RECURSIVE ParseItems(_, _, _)
RECURSIVE ParseMembers(_, _, _)

\* the value starting at token i, and the index after it
ParseValue(toks, i) ==
    IF i > Len(toks) THEN ParseFail
    ELSE LET tk == toks[i] IN
         IF tk.t = "null" THEN [ok |-> TRUE, val |-> PyNone, next |-> i + 1]
         ELSE IF tk.t = "string"
              THEN IF Unescape(tk.v).ok
                   THEN [ok |-> TRUE, val |-> PyStr(Unescape(tk.v).s),
                         next |-> i + 1]
                   ELSE ParseFail
         ELSE IF tk.t = "number"
              THEN [ok |-> TRUE, val |-> PyInt(TextToInt(tk.v)), next |-> i + 1]
         ELSE IF tk.t = "["
              THEN IF i + 1 <= Len(toks) /\ toks[i + 1].t = "]"
                   THEN [ok |-> TRUE, val |-> PyList(<<>>), next |-> i + 2]
                   ELSE ParseItems(toks, i + 1, <<>>)
         ELSE IF tk.t = "{"
              THEN IF i + 1 <= Len(toks) /\ toks[i + 1].t = "}"
                   THEN [ok |-> TRUE, val |-> PyDict(<<>>), next |-> i + 2]
                   ELSE ParseMembers(toks, i + 1, <<>>)
         ELSE ParseFail

\* the items of an array from token i on, up to the closing bracket
ParseItems(toks, i, acc) ==
    LET item == ParseValue(toks, i) IN
    IF ~item.ok \/ item.next > Len(toks) THEN ParseFail
    ELSE IF toks[item.next].t = ","
         THEN ParseItems(toks, item.next + 1, Append(acc, item.val))
    ELSE IF toks[item.next].t = "]"
         THEN [ok |-> TRUE, val |-> PyList(Append(acc, item.val)),
               next |-> item.next + 1]
    ELSE ParseFail

\* the members of an object from token i on, up to the closing brace
ParseMembers(toks, i, acc) ==
    IF i + 1 > Len(toks) \/ toks[i].t # "string" \/ toks[i + 1].t # ":"
       \/ ~Unescape(toks[i].v).ok
    THEN ParseFail
    ELSE LET key == Unescape(toks[i].v).s
             item == ParseValue(toks, i + 2)
         IN  IF ~item.ok \/ item.next > Len(toks) THEN ParseFail
             ELSE IF toks[item.next].t = ","
                  THEN ParseMembers(toks, item.next + 1,
                                    Append(acc, <<key, item.val>>))
             ELSE IF toks[item.next].t = "}"
                  THEN [ok |-> TRUE,
                        val |-> PyDict(Append(acc, <<key, item.val>>)),
                        next |-> item.next + 1]
             ELSE ParseFail

\* json.load: one value and nothing after it, else JSONDecodeError
json_load(toks) ==
    LET r == ParseValue(toks, 1)
    IN  IF r.ok /\ r.next = Len(toks) + 1 THEN [ok |-> TRUE, val |-> r.val]
        ELSE [ok |-> FALSE, val |-> PyNone]

(***************************************************************************)
(* Inputs of the model: paths, capacities, the interactions handed to      *)
(* store, the questions handed to find_similar, the reasoning service's    *)
(* responses.                                                              *)
(***************************************************************************)
DefaultPath == "conversation_memory.json"

Paths == {DefaultPath, "other.json"}

Caps == 0..MaxCap

Instances == {1, 2}

K_question == <<"q","u","e","s","t","i","o","n">>

K_question_tokens == K_question \o <<"_","t","o","k","e","n","s">>

K_sql_query == <<"s","q","l","_","q","u","e","r","y">>

K_summary == <<"s","u","m","m","a","r","y">>

K_results == <<"r","e","s","u","l","t","s">>

K_timestamp == <<"t","i","m","e","s","t","a","m","p">>

Row(id, name) == PyDict(<< <<<<"i","d">>, PyInt(id)>>, <<<<"n","m">>, name>> >>)

\* the arguments of one store call: question, sql_query, results, summary
Interactions ==
    { [question |-> <<"I","s"," ","A","B","?">>,
       sql_query |-> PyNone, results |-> PyNone, summary |-> PyNone],
      [question |-> <<"a","b"," ","c","d">>,
       sql_query |-> PyStr(<<"S","1">>), results |-> PyList(<<>>),
       summary |-> PyStr(<<"n","o"," ","\"","r","\"">>)],
      [question |-> <<"t","h","e"," ","e","f"," ","e","f">>,
       sql_query |-> PyStr(<<"S","2">>),
       results |-> PyList(<<Row(1, PyStr(<<"x","\\","y">>)), Row(20, PyNone)>>),
       summary |-> PyStr(<<"t","w","o">>)] }

Questions == {x.question : x \in Interactions}

\* what the reasoning service's response carries as its text
LLMTexts == { <<"N","o","n","e">>, <<" ","N","O","N","E","\n">>, <<"t","w","o">> }

\* how one write of the file ends
WriteOutcomes == {"ok", "open_error", "write_error"}

\* how one read of an existing file ends
ReadOutcomes == {"ok", "error"}

(***************************************************************************)
(* State.                                                                  *)
(***************************************************************************)
VARIABLES
    mem,         \* the ConversationMemory objects: path, max_entries, _entries
    fs,          \* the files: absent, or their JSON tokens
    clock,       \* the UTC instant read by the next store
    LLM_CLIENT,  \* TRUE when the module-level client was initialised
    ret,         \* the last call: its arguments and outcome
    hist,        \* per object: what it loaded and the entries it stored since
    arg,         \* the arguments of a call of a pure function
    out,         \* its result, once it was called
    llm,         \* TRUE when llm_chain's module-level client was initialised
    output_json, \* TRUE when the schema file output.json exists
    events,      \* the external calls made by the last request, in order
    res          \* the last request of the pipeline side and its outcome

\* the state of the conversation memory side
memVars == <<mem, fs, clock, LLM_CLIENT, ret, hist, arg, out>>

\* the state of the query pipeline side
pipeVars == <<llm, output_json, events, res>>

vars == <<mem, fs, clock, LLM_CLIENT, ret, hist, arg, out,
          llm, output_json, events, res>>

NoRes == [op |-> "none"]

\* nothing was asked of the pipeline yet
InitNoPipeline ==
    /\ llm = TRUE
    /\ output_json = TRUE
    /\ events = <<>>
    /\ res = NoRes

NoFile == [exists |-> FALSE, data |-> <<>>]

File(toks) == [exists |-> TRUE, data |-> toks]

NoObject == [constructed |-> FALSE, path |-> DefaultPath, max_entries |-> 0,
             _entries |-> PyList(<<>>)]

NoCall == [question |-> <<>>, sql_query |-> PyNone, results |-> PyNone,
           summary |-> PyNone]

\* io is TRUE when the call's read or write of the file succeeded
Ret(op, i, raised, value, call, path, io) ==
    [op |-> op, inst |-> i, raised |-> raised, value |-> value, call |-> call,
     path |-> path, io |-> io]

(***************************************************************************)
(* ConversationMemory._load: the entries a new object starts with.         *)
(***************************************************************************)
_load(file, rd) ==
    IF file.exists
    THEN IF rd = "ok"
         THEN LET r == json_load(file.data)
              IN  IF r.ok THEN r.val ELSE PyList(<<>>)
         ELSE PyList(<<>>)
    ELSE PyList(<<>>)

(***************************************************************************)
(* ConversationMemory.__init__                                             *)
(***************************************************************************)
Construct(i, path, max_entries, rd) ==
    LET loaded == _load(fs[path], rd) IN
    /\ mem' = [mem EXCEPT ![i] =
                 [constructed |-> TRUE, path |-> path,
                  max_entries |-> max_entries, _entries |-> loaded]]
    /\ hist' = [hist EXCEPT ![i] =
                 [existed |-> fs[path].exists, loaded |-> loaded,
                  stored |-> <<>>]]
    /\ ret' = Ret("construct", i, FALSE, PyNone, NoCall, path, rd = "ok")
    /\ UNCHANGED <<fs, clock, LLM_CLIENT, arg, out, pipeVars>>

(***************************************************************************)
(* ConversationMemory._save: the file after the write attempt.  The write  *)
(* may fail before the file is opened (nothing changes) or after it was     *)
(* opened and truncated, leaving a proper prefix of the text behind.       *)
(***************************************************************************)
\* the bug of opening the file in append mode
SaveAppends(file, entries, w) ==
    IF w = "ok" THEN File(file.data \o json_dump(entries))
    ELSE IF w = "open_error" THEN file
    ELSE LET text == json_dump(entries)
         IN  File(file.data \o SubSeq(text, 1, Len(text) - 1))

_save(file, entries, w) ==
    IF w = "ok" THEN File(json_dump(entries))
    ELSE IF w = "open_error" THEN file
    ELSE LET text == json_dump(entries)
         IN  File(SubSeq(text, 1, Len(text) - 1))

\* xs[start:] for a Python list
SliceFrom(xs, start) ==
    LET n == Len(xs)
        from == IF start < 0 THEN (IF n + start < 0 THEN 0 ELSE n + start)
                ELSE (IF start > n THEN n ELSE start)
    IN  SubSeq(xs, from + 1, n)

\* results or []
OrEmptyList(results) ==
    IF results = PyNone \/ results = PyList(<<>>) THEN PyList(<<>>) ELSE results

NewEntry(x, now) ==
    LET tokens == _normalize_text(x.question) IN
    PyDict(<< <<K_question, PyStr(x.question)>>,
              <<K_question_tokens,
                PyList([j \in 1..Len(tokens) |-> PyStr(tokens[j])])>>,
              <<K_sql_query, x.sql_query>>,
              <<K_summary, x.summary>>,
              <<K_results, OrEmptyList(x.results)>>,
              <<K_timestamp, PyStr(IntToText(now) \o <<"Z">>)>> >>)

\* the bug of keeping the oldest entries: appended[:max_entries]
BoundedKeepOldest(entries, entry, max_entries) ==
    LET appended == Append(entries.v, entry)
    IN  IF Len(appended) > max_entries
        THEN PyList(SubSeq(appended, 1, max_entries))
        ELSE PyList(appended)

\* the entries after the append and the size bound
Bounded(entries, entry, max_entries) ==
    LET appended == Append(entries.v, entry)
    IN  IF Len(appended) > max_entries
        THEN PyList(SliceFrom(appended, 0 - max_entries))
        ELSE PyList(appended)

(***************************************************************************)
(* ConversationMemory.store                                                *)
(***************************************************************************)
\* the bug of dropping the new entry again when the write failed
StoreRollsBack(i, x, w) ==
    /\ mem[i].constructed
    /\ clock < MaxStores
    /\ LET entry == NewEntry(x, clock)
           kept == Bounded(mem[i]._entries, entry, mem[i].max_entries)
       IN  /\ mem' = IF w = "ok" THEN [mem EXCEPT ![i]._entries = kept] ELSE mem
           /\ fs' = [fs EXCEPT ![mem[i].path] = _save(@, kept, w)]
           /\ hist' = [hist EXCEPT ![i].stored = Append(@, entry)]
    /\ clock' = clock + 1
    /\ ret' = Ret("store", i, FALSE, PyNone, x, mem[i].path, w = "ok")
    /\ UNCHANGED <<LLM_CLIENT, arg, out, pipeVars>>

\* the repair of reading the file again before appending, which merges
StoreMerges(i, x, w) ==
    /\ mem[i].constructed
    /\ clock < MaxStores
    /\ LET entry == NewEntry(x, clock)
           kept == Bounded(_load(fs[mem[i].path], "ok"), entry,
                           mem[i].max_entries)
       IN  /\ mem' = [mem EXCEPT ![i]._entries = kept]
           /\ fs' = [fs EXCEPT ![mem[i].path] = _save(@, kept, w)]
           /\ hist' = [hist EXCEPT ![i].stored = Append(@, entry)]
    /\ clock' = clock + 1
    /\ ret' = Ret("store", i, FALSE, PyNone, x, mem[i].path, w = "ok")
    /\ UNCHANGED <<LLM_CLIENT, arg, out, pipeVars>>

Store(i, x, w) ==
    /\ mem[i].constructed
    /\ clock < MaxStores
    /\ LET entry == NewEntry(x, clock)
           kept == Bounded(mem[i]._entries, entry, mem[i].max_entries)
       IN  /\ mem' = [mem EXCEPT ![i]._entries = kept]
           /\ fs' = [fs EXCEPT ![mem[i].path] = _save(@, kept, w)]
           /\ hist' = [hist EXCEPT ![i].stored = Append(@, entry)]
    /\ clock' = clock + 1
    /\ ret' = Ret("store", i, FALSE, PyNone, x, mem[i].path, w = "ok")
    /\ UNCHANGED <<LLM_CLIENT, arg, out, pipeVars>>

(***************************************************************************)
(* ConversationMemory.find_similar                                         *)
(***************************************************************************)
\* str.strip()
RECURSIVE LStrip(_)
LStrip(s) ==
    IF s # <<>> /\ Head(s) \in Whitespace THEN LStrip(Tail(s)) ELSE s

RECURSIVE RStrip(_)
RStrip(s) ==
    IF s # <<>> /\ Last(s) \in Whitespace
    THEN RStrip(SubSeq(s, 1, Len(s) - 1)) ELSE s

Strip(s) == RStrip(LStrip(s))

\* the outcomes of LLM_CLIENT.models.generate_content(...)
Responses ==
    {[kind |-> "raise", text |-> <<>>], [kind |-> "no_text", text |-> <<>>]}
    \cup {[kind |-> "text", text |-> t] : t \in LLMTexts}

\* the value find_similar returns once the file was read
Recall(resp) ==
    IF resp.kind # "text" THEN PyNone
    ELSE IF Lower(Strip(resp.text)) = <<"n","o","n","e">> THEN PyNone
    ELSE PyDict(<< <<K_summary, PyStr(resp.text)>> >>)

\* what the call hands back: raised, or the returned value
FindSimilarResult(i, user_query, path, rd, resp) ==
    LET call == [NoCall EXCEPT !.question = user_query] IN
    IF ~LLM_CLIENT
    THEN Ret("find_similar", i, FALSE, PyNone, call, path, FALSE)
    ELSE IF fs[path].exists
         THEN IF rd = "ok"
              THEN Ret("find_similar", i, FALSE, Recall(resp), call, path, TRUE)
              ELSE Ret("find_similar", i, TRUE, PyNone, call, path, FALSE)
         ELSE Ret("find_similar", i, FALSE, PyNone, call, path, FALSE)

\* one call made on a collaborator, with its argument
Ev(call, a) == [call |-> call, arg |-> a]

\* the bug of opening the log for writing, which truncates it
FindSimilarTruncates(i, user_query, path, rd, resp) ==
    /\ mem[i].constructed
    /\ ret' = FindSimilarResult(i, user_query, path, rd, resp)
    /\ fs' = [fs EXCEPT ![path] =
                IF LLM_CLIENT /\ @.exists /\ rd = "ok" THEN File(<<>>) ELSE @]
    /\ events' = IF LLM_CLIENT /\ fs[path].exists /\ rd = "ok"
                 THEN <<Ev("generate_content", fs[path].data)>> ELSE <<>>
    /\ UNCHANGED <<mem, clock, LLM_CLIENT, hist, arg, out>>
    /\ UNCHANGED <<llm, output_json, res>>

\* the bug of recalling from the records the object holds
FindSimilarFromMemory(i, user_query, path, rd, resp) ==
    /\ mem[i].constructed
    /\ ret' = FindSimilarResult(i, user_query, path, rd, resp)
    /\ events' = IF LLM_CLIENT /\ fs[path].exists /\ rd = "ok"
                 THEN <<Ev("generate_content", json_dump(mem[i]._entries))>>
                 ELSE <<>>
    /\ UNCHANGED <<mem, fs, clock, LLM_CLIENT, hist, arg, out>>
    /\ UNCHANGED <<llm, output_json, res>>

\* events holds the call made on the reasoning service, with the context
\* that the system prompt carries
FindSimilar(i, user_query, path, rd, resp) ==
    /\ mem[i].constructed
    /\ ret' = FindSimilarResult(i, user_query, path, rd, resp)
    /\ events' = IF LLM_CLIENT /\ fs[path].exists /\ rd = "ok"
                 THEN <<Ev("generate_content", fs[path].data)>> ELSE <<>>
    /\ UNCHANGED <<mem, fs, clock, LLM_CLIENT, hist, arg, out>>
    /\ UNCHANGED <<llm, output_json, res>>

(***************************************************************************)
NoArg == [a |-> <<>>, b |-> <<>>]

NoOut == [done |-> FALSE, tokens |-> <<>>, again |-> <<>>,
          ab |-> [num |-> 0, den |-> 1], ba |-> [num |-> 0, den |-> 1],
          aa |-> [num |-> 0, den |-> 1]]

NoHist == [existed |-> FALSE, loaded |-> PyList(<<>>), stored |-> <<>>]

InitMemory ==
    /\ \E c \in Caps :
         mem = [i \in Instances |->
                  IF i = 1 THEN [NoObject EXCEPT !.constructed = TRUE,
                                                 !.max_entries = c]
                  ELSE NoObject]
    /\ fs = [p \in Paths |-> NoFile]
    /\ clock = 0
    /\ ret = Ret("construct", 1, FALSE, PyNone, NoCall, DefaultPath, TRUE)
    /\ hist = [i \in Instances |-> NoHist]
    /\ arg = NoArg
    /\ out = NoOut
    /\ InitNoPipeline

Init == InitMemory /\ LLM_CLIENT = TRUE

DoStore == \E x \in Interactions, w \in WriteOutcomes : Store(1, x, w)

Next == DoStore

\* an object that only stores
Spec == Init /\ [][Next]_vars

DoConstruct ==
    \E c \in Caps :
        \E rd \in (IF fs[DefaultPath].exists THEN ReadOutcomes ELSE {"ok"}) :
            Construct(1, DefaultPath, c, rd)

DoStoreReload == clock < MaxReloadStores /\ DoStore

NextReload == DoStoreReload \/ DoConstruct

\* stores, and new objects constructed over the file
SpecReload == Init /\ [][NextReload]_vars

InitRecall == InitMemory /\ LLM_CLIENT \in BOOLEAN

DoFindSimilar ==
    \E q \in Questions, path \in Paths :
        \E rd \in (IF LLM_CLIENT /\ fs[path].exists THEN ReadOutcomes
                   ELSE {"ok"}) :
            \E resp \in (IF LLM_CLIENT /\ fs[path].exists /\ rd = "ok"
                         THEN Responses ELSE {[kind |-> "raise", text |-> <<>>]}) :
                FindSimilar(1, q, path, rd, resp)

DoStoreRecall == clock < MaxRecallStores /\ DoStore

NextRecall == DoStoreRecall \/ DoFindSimilar

\* stores and recalls
SpecRecall == InitRecall /\ [][NextRecall]_vars

(***************************************************************************)
(* Two writers: two objects constructed over the same file, which held     *)
(* nothing or one earlier record, each holding what it loaded.             *)
(***************************************************************************)
\* the record an earlier run left in the file
EarlierRecord == NewEntry(CHOOSE x \in Interactions : x.summary = PyNone, 0)

WriterFiles == {NoFile, File(json_dump(PyList(<<EarlierRecord>>)))}

\* the interactions and write outcomes tried by the two writers
WriterInteractions == {x \in Interactions : x.summary # PyNone}

WriterOutcomes == {"ok", "write_error"}

InitWriters ==
    /\ \E file \in WriterFiles :
         /\ fs = [p \in Paths |-> IF p = DefaultPath THEN file ELSE NoFile]
         /\ \E caps \in [Instances -> Caps] :
              mem = [i \in Instances |->
                       [constructed |-> TRUE, path |-> DefaultPath,
                        max_entries |-> caps[i],
                        _entries |-> _load(file, "ok")]]
         /\ hist = [i \in Instances |->
                      [existed |-> file.exists, loaded |-> _load(file, "ok"),
                       stored |-> <<>>]]
    /\ clock = 1
    /\ LLM_CLIENT = TRUE
    /\ ret = Ret("construct", 2, FALSE, PyNone, NoCall, DefaultPath, TRUE)
    /\ arg = NoArg
    /\ out = NoOut
    /\ InitNoPipeline

DoStoreWriters ==
    /\ clock < 1 + MaxWriterStores
    /\ \E i \in Instances, x \in WriterInteractions, w \in WriterOutcomes :
          Store(i, x, w)

\* two objects storing into the same file, in any order
SpecWriters == InitWriters /\ [][DoStoreWriters]_vars

(***************************************************************************)
(* get_memory: the object cached on the function, here object 2.           *)
(***************************************************************************)
\* the bug of constructing a new object on every call
GetMemoryReloads(path, max_entries, rd) ==
    LET loaded == _load(fs[path], rd) IN
    /\ mem' = [mem EXCEPT ![2] =
                 [constructed |-> TRUE, path |-> path,
                  max_entries |-> max_entries, _entries |-> loaded]]
    /\ hist' = [hist EXCEPT ![2] =
                 [existed |-> fs[path].exists, loaded |-> loaded,
                  stored |-> <<>>]]
    /\ ret' = Ret("get_memory", 2, FALSE, PyNone, NoCall, path,
                  fs[path].exists /\ rd = "ok")
    /\ UNCHANGED <<fs, clock, LLM_CLIENT, arg, out, pipeVars>>

\* ret.path is the path argument, ret.io is TRUE when the call read the file
GetMemory(path, max_entries, rd) ==
    IF ~mem[2].constructed
    THEN LET loaded == _load(fs[path], rd) IN
         /\ mem' = [mem EXCEPT ![2] =
                      [constructed |-> TRUE, path |-> path,
                       max_entries |-> max_entries, _entries |-> loaded]]
         /\ hist' = [hist EXCEPT ![2] =
                      [existed |-> fs[path].exists, loaded |-> loaded,
                       stored |-> <<>>]]
         /\ ret' = Ret("get_memory", 2, FALSE, PyNone, NoCall, path,
                       fs[path].exists /\ rd = "ok")
         /\ UNCHANGED <<fs, clock, LLM_CLIENT, arg, out, pipeVars>>
    ELSE /\ ret' = Ret("get_memory", 2, FALSE, PyNone, NoCall, path, FALSE)
         /\ UNCHANGED <<mem, fs, clock, LLM_CLIENT, hist, arg, out, pipeVars>>

DoGetMemory ==
    \E path \in Paths, max_entries \in Caps :
        \E rd \in (IF ~mem[2].constructed /\ fs[path].exists
                   THEN ReadOutcomes ELSE {"ok"}) :
            GetMemory(path, max_entries, rd)

DoStoreSingleton ==
    /\ clock < MaxRecallStores
    /\ \E i \in Instances, x \in WriterInteractions, w \in WriterOutcomes :
          Store(i, x, w)

\* calls of get_memory, and stores by the cached object and by another one
SpecSingleton == Init /\ [][DoGetMemory \/ DoStoreSingleton]_vars

(***************************************************************************)
(* Pure functions applied to bounded inputs.                               *)
(***************************************************************************)
JaccardTokens == { <<"a","b">>, <<"c","d">>, <<"e","f">> }

NormalizeChars == {"i", "s", "I", " ", "."}

InitIdle ==
    /\ mem = [i \in Instances |-> NoObject]
    /\ fs = [p \in Paths |-> NoFile]
    /\ clock = 0
    /\ LLM_CLIENT = TRUE
    /\ ret = Ret("construct", 1, FALSE, PyNone, NoCall, DefaultPath, TRUE)
    /\ hist = [i \in Instances |-> NoHist]
    /\ out = NoOut
    /\ InitNoPipeline

InitJaccard ==
    /\ InitIdle
    /\ \E a \in SeqsUpTo(JaccardTokens, MaxTokens),
          b \in SeqsUpTo(JaccardTokens, MaxTokens) : arg = [a |-> a, b |-> b]

ApplyJaccard ==
    /\ ~out.done
    /\ out' = [NoOut EXCEPT !.done = TRUE,
                            !.ab = _jaccard_similarity(arg.a, arg.b),
                            !.ba = _jaccard_similarity(arg.b, arg.a),
                            !.aa = _jaccard_similarity(arg.a, arg.a)]
    /\ UNCHANGED <<mem, fs, clock, LLM_CLIENT, ret, hist, arg, pipeVars>>

SpecJaccard == InitJaccard /\ [][ApplyJaccard]_vars

InitNormalize ==
    /\ InitIdle
    /\ \E text \in SeqsUpTo(NormalizeChars, MaxLen) :
          arg = [a |-> text, b |-> <<>>]

ApplyNormalize ==
    /\ ~out.done
    /\ LET tokens == _normalize_text(arg.a)
       IN  out' = [NoOut EXCEPT !.done = TRUE, !.tokens = tokens,
                               !.again = _normalize_text(JoinSpace(tokens))]
    /\ UNCHANGED <<mem, fs, clock, LLM_CLIENT, ret, hist, arg, pipeVars>>

SpecNormalize == InitNormalize /\ [][ApplyNormalize]_vars

(***************************************************************************)
(* The query pipeline side: llm/llm_chain.py, app/database_utils.py,       *)
(* app/main.py and ui/streamlit_app.py.  Text helpers first.               *)
(***************************************************************************)
\* str.upper() on one character
UpperChar(c) ==
    IF \E i \in 1..26 : LowerCase[i] = c
    THEN UpperCase[CHOOSE i \in 1..26 : LowerCase[i] = c]
    ELSE c

\* str.upper()
Upper(text) == [i \in 1..Len(text) |-> UpperChar(text[i])]

\* str.startswith(prefix)
StartsWith(text, prefix) ==
    /\ Len(text) >= Len(prefix)
    /\ SubSeq(text, 1, Len(prefix)) = prefix

\* str.endswith(suffix)
EndsWith(text, suffix) ==
    /\ Len(text) >= Len(suffix)
    /\ SubSeq(text, Len(text) - Len(suffix) + 1, Len(text)) = suffix

\* needle in text
In(needle, text) ==
    \E i \in 1..(Len(text) - Len(needle) + 1) :
        SubSeq(text, i, i + Len(needle) - 1) = needle

\* str.strip(chars): drops from both ends every character that occurs in chars
RECURSIVE LStripChars(_, _)
LStripChars(s, chars) ==
    IF s # <<>> /\ Head(s) \in Range(chars)
    THEN LStripChars(Tail(s), chars) ELSE s

RECURSIVE RStripChars(_, _)
RStripChars(s, chars) ==
    IF s # <<>> /\ Last(s) \in Range(chars)
    THEN RStripChars(SubSeq(s, 1, Len(s) - 1), chars) ELSE s

StripChars(s, chars) == RStripChars(LStripChars(s, chars), chars)

\* bool(value) of None or a str
Truthy(value) == value # PyNone /\ value.v # <<>>

(***************************************************************************)
(* The texts of the code and of the model's inputs.                        *)
(***************************************************************************)
\* the character U+0060, which a string literal of TLA+ cannot hold
Backtick == "grave"

Fence == <<Backtick, Backtick, Backtick>>

FenceSql == Fence \o <<"s","q","l">>

\* the fixed texts of the code: keywords, sentinels and messages
Text ==
    [
      QUERY_NOT_POSSIBLE |->
        <<"Q","U","E","R","Y","_","N","O","T","_","P","O","S","S","I","B",
          "L","E">>,
      LlmNotInitialized |->
        <<"E","R","R","O","R",":"," ","L","L","M"," ","n","o","t"," ","i",
          "n","i","t","i","a","l","i","z","e","d",".">>,
      FailedToGenerate |->
        <<"E","R","R","O","R",":"," ","F","a","i","l","e","d"," ","t","o",
          " ","g","e","n","e","r","a","t","e"," ","S","Q","L"," ","q","u",
          "e","r","y",".">>,
      FailedToRestructure |->
        <<"E","R","R","O","R",":"," ","F","a","i","l","e","d"," ","t","o",
          " ","r","e","s","t","r","u","c","t","u","r","e"," ","r","e","s",
          "u","l","t","s",".">>,
      CouldNotConnect |->
        <<"E","R","R","O","R",":"," ","C","o","u","l","d"," ","n","o","t",
          " ","c","o","n","n","e","c","t"," ","t","o"," ","d","a","t","a",
          "b","a","s","e"," ","f","o","r"," ","q","u","e","r","y"," ","e",
          "x","e","c","u","t","i","o","n",".">>,
      SecurityError |->
        <<"S","E","C","U","R","I","T","Y"," ","E","R","R","O","R",":"," ",
          "O","n","l","y"," ","r","e","a","d","-","o","n","l","y"," ","S",
          "E","L","E","C","T"," ","o","r"," ","W","I","T","H"," ","s","t",
          "a","t","e","m","e","n","t","s"," ","a","r","e"," ","a","l","l",
          "o","w","e","d",".">>,
      SqlExecutionError |->
        <<"S","Q","L"," ","E","X","E","C","U","T","I","O","N"," ","E","R",
          "R","O","R",":"," ">>,
      UnexpectedError |->
        <<"A","n"," ","u","n","e","x","p","e","c","t","e","d"," ","e","r",
          "r","o","r"," ","o","c","c","u","r","r","e","d",":"," ">>,
      SqlGenerationFailed |->
        <<"S","Q","L"," ","G","e","n","e","r","a","t","i","o","n"," ","F",
          "a","i","l","e","d",":"," ">>,
      SqlExecutionFailed |->
        <<"S","Q","L"," ","E","x","e","c","u","t","i","o","n"," ","F","a",
          "i","l","e","d",":"," ">>,
      CannotAnswer |->
        <<"I"," ","c","a","n","n","o","t"," ","a","n","s","w","e","r"," ",
          "t","h","i","s"," ","q","u","e","s","t","i","o","n"," ","b","a",
          "s","e","d"," ","o","n"," ","t","h","e"," ","a","v","a","i","l",
          "a","b","l","e"," ","d","a","t","a","b","a","s","e"," ","s","c",
          "h","e","m","a","."," ","P","l","e","a","s","e"," ","r","e","p",
          "h","r","a","s","e"," ","y","o","u","r"," ","q","u","e","s","t",
          "i","o","n",".">>,
      NoneNotIterable |->
        <<"'","N","o","n","e","T","y","p","e","'"," ","o","b","j","e","c",
          "t"," ","i","s"," ","n","o","t"," ","i","t","e","r","a","b","l",
          "e">>,
      T_SELECT |->
        <<"S","E","L","E","C","T">>,
      T_WITH |->
        <<"W","I","T","H">>,
      T_ERROR |->
        <<"E","R","R","O","R">>,
      T_cannot_answer |->
        <<"c","a","n","n","o","t"," ","a","n","s","w","e","r">>,
      NoData |->
        <<"Q","u","e","r","y"," ","e","x","e","c","u","t","e","d"," ","b",
          "u","t"," ","r","e","t","u","r","n","e","d"," ","n","o"," ","d",
          "a","t","a",".">> ]

\* sample texts: SQL statements, answers of the reasoning service, the
\* text of a driver exception, a question
Sample ==
    [
      SqlSelect1 |->
        <<"S","E","L","E","C","T"," ","1">>,
      SqlWithSelect |->
        <<"W","I","T","H"," ","t"," ","A","S"," ","(","S","E","L","E","C",
          "T"," ","1",")"," ","S","E","L","E","C","T"," ","*"," ","F","R",
          "O","M"," ","t">>,
      SqlDropTable |->
        <<"D","R","O","P"," ","T","A","B","L","E"," ","c","u","s","t","o",
          "m","e","r","s">>,
      SqlDeleteFrom |->
        <<"D","E","L","E","T","E"," ","F","R","O","M"," ","o","r","d","e",
          "r","s">>,
      SqlSelectErrors |->
        <<"S","E","L","E","C","T"," ","*"," ","F","R","O","M"," ","E","R",
          "R","O","R","S">>,
      SqlSelectThenDrop |->
        <<"S","E","L","E","C","T"," ","1",";"," ","D","R","O","P"," ","T",
          "A","B","L","E"," ","c","u","s","t","o","m","e","r","s">>,
      SqlWithdraw |->
        <<"W","I","T","H","D","R","A","W"," ","5">>,
      SqlSelectx |->
        <<"S","E","L","E","C","T","X"," ","1">>,
      SqlParenSelect |->
        <<"(","S","E","L","E","C","T"," ","1",")">>,
      SqlUpdate |->
        <<"U","P","D","A","T","E"," ","t"," ","S","E","T"," ","a"," ","=",
          " ","1">>,
      SqlMixedCase |->
        <<" ","\n","\t","S","e","L","e","C","t"," ","1">>,
      SqlLowerWith |->
        <<" "," ","w","i","t","h"," ","t"," ","a","s"," ","(","s","e","l",
          "e","c","t"," ","1",")"," ","s","e","l","e","c","t"," ","*"," ",
          "f","r","o","m"," ","t">>,
      SqlSelec |->
        <<"S","E","L","E","C">>,
      SqlSelectSemi |->
        <<"S","E","L","E","C","T"," ","1",";","\n">>,
      SqlLowerFromSql |->
        <<"s","e","l","e","c","t"," ","*"," ","f","r","o","m"," ","s","q",
          "l">>,
      SqlTwoLines |->
        <<"S","E","L","E","C","T"," ","a","\n","F","R","O","M"," ","t">>,
      SorryNotPossible |->
        <<"S","o","r","r","y",":"," ","Q","U","E","R","Y","_","N","O","T",
          "_","P","O","S","S","I","B","L","E",".">>,
      SummaryText |->
        <<"F","i","v","e"," ","r","o","w","s",".">>,
      SummaryCannot |->
        <<"W","e"," ","c","a","n","n","o","t"," ","a","n","s","w","e","r",
          " ","m","o","r","e",".">>,
      QuestionTop |->
        <<"t","o","p"," ","5","?">>,
      DriverMessage |->
        <<"1","0","6","4"," ","(","4","2","0","0","0",")">> ]

(***************************************************************************)
(* Inputs of the pipeline side: SQL texts and the database's behaviours.   *)
(***************************************************************************)
\* the statements handed to execute_sql_query
SqlTexts ==
    { <<>>, <<" ">>, Sample.SqlSelect1, Sample.SqlWithSelect,
      Sample.SqlDropTable, Sample.SqlDeleteFrom, Sample.SqlSelectErrors,
      Sample.SqlSelectThenDrop, Sample.SqlWithdraw, Sample.SqlSelectx,
      Sample.SqlParenSelect, Sample.SqlUpdate, Sample.SqlMixedCase,
      Sample.SqlLowerWith, Sample.SqlSelec, Sample.SqlSelectSemi }

\* cursor.description of a statement with a result set: the column names
Descriptions == { << <<"i","d">>, <<"n","m">> >>, << <<"a">>, <<"a">> >> }

\* the n-th row fetchall returns
RowOf(n) == <<PyInt(n), IF n % 2 = 1 THEN PyStr(<<"x">>) ELSE PyNone>>

\* how the database behaves during one call: the connection is refused
\* (mysql.connector.Error in connect), conn.cursor() raises, or the
\* statement is executed: it raises a mysql.connector.Error, raises another
\* exception, has no result description, or yields rows
NoDb == [connect |-> "ok", cursor |-> "ok", execute |-> "rows",
         description |-> <<>>, rows |-> <<>>]

DbBehaviours ==
    { [NoDb EXCEPT !.connect = "refused"], [NoDb EXCEPT !.cursor = "error"] }
    \cup { [NoDb EXCEPT !.execute = e] :
             e \in {"mysql_error", "error", "no_description"} }
    \cup { [NoDb EXCEPT !.description = d,
                        !.rows = [j \in 1..n |-> RowOf(j)]] :
             d \in Descriptions, n \in 0..MaxRows }

(***************************************************************************)
(* app/database_utils.py: execute_sql_query.  The result carries the       *)
(* calls made on the driver, in order.                                     *)
(***************************************************************************)

\* zip(a, b)
Zip(a, b) ==
    [j \in 1..(IF Len(a) < Len(b) THEN Len(a) ELSE Len(b)) |-> <<a[j], b[j]>>]

\* d[key] = value on the pairs of a dict
DictSet(pairs, key, value) ==
    IF \E j \in 1..Len(pairs) : pairs[j][1] = key
    THEN [j \in 1..Len(pairs) |->
            IF pairs[j][1] = key THEN <<key, value>> ELSE pairs[j]]
    ELSE Append(pairs, <<key, value>>)

\* dict(items)
RECURSIVE DictOf(_, _)
DictOf(items, acc) ==
    IF items = <<>> THEN acc
    ELSE DictOf(Tail(items), DictSet(acc, Head(items)[1], Head(items)[2]))

\* what a call hands back: raised, or the pair (results, error)
Executed(raised, results, error, evs) ==
    [raised |-> raised, results |-> results, error |-> error, events |-> evs]

\* the gate of lines 238-239
PassesGate(sql_query) ==
    LET normalized_query == Upper(Strip(sql_query))
    IN  StartsWith(normalized_query, Text.T_SELECT)
            \/ StartsWith(normalized_query, Text.T_WITH)

\* the bug of testing the gate after the statement was executed
ExecuteThenGate(sql_query, db) ==
    LET opened == <<Ev("connect", <<>>), Ev("cursor", <<>>),
                    Ev("execute", sql_query)>>
        closed == <<Ev("cursor.close", <<>>), Ev("conn.close", <<>>)>>
    IN  IF db.connect = "refused"
        THEN Executed(FALSE, <<>>, Text.CouldNotConnect,
                      <<Ev("connect", <<>>)>>)
        ELSE IF db.cursor = "error"
        THEN Executed(TRUE, <<>>, <<>>,
                      <<Ev("connect", <<>>), Ev("cursor", <<>>)>>)
        ELSE IF ~PassesGate(sql_query)
        THEN Executed(FALSE, <<>>, Text.SecurityError, opened \o closed)
        ELSE Executed(FALSE, <<>>, <<>>, opened \o closed)

\* the bug of returning the security rejection without closing
ExecuteLeaksOnRejection(sql_query, db) ==
    LET opened == <<Ev("connect", <<>>), Ev("cursor", <<>>)>>
        closed == <<Ev("cursor.close", <<>>), Ev("conn.close", <<>>)>>
        tried == Append(opened, Ev("execute", sql_query))
    IN  IF db.connect = "refused"
        THEN Executed(FALSE, <<>>, Text.CouldNotConnect,
                      <<Ev("connect", <<>>)>>)
        ELSE IF db.cursor = "error"
        THEN Executed(TRUE, <<>>, <<>>, opened)
        ELSE IF ~PassesGate(sql_query)
        THEN Executed(FALSE, <<>>, Text.SecurityError, opened)
        ELSE IF db.execute = "mysql_error"
        THEN Executed(FALSE, <<>>,
                      Text.SqlExecutionError \o Sample.DriverMessage,
                      tried \o closed)
        ELSE IF db.execute = "error"
        THEN Executed(FALSE, <<>>,
                      Text.UnexpectedError \o Sample.DriverMessage,
                      tried \o closed)
        ELSE IF db.execute = "no_description"
        THEN Executed(FALSE, <<>>,
                      Text.UnexpectedError \o Text.NoneNotIterable,
                      tried \o closed)
        ELSE Executed(FALSE,
                      [j \in 1..Len(db.rows) |->
                         PyDict(DictOf(Zip(db.description, db.rows[j]), <<>>))],
                      <<>>,
                      Append(tried, Ev("fetchall", <<>>)) \o closed)

execute_sql_query(sql_query, db) ==
    LET opened == <<Ev("connect", <<>>), Ev("cursor", <<>>)>>
        closed == <<Ev("cursor.close", <<>>), Ev("conn.close", <<>>)>>
        tried == Append(opened, Ev("execute", sql_query))
    IN  IF db.connect = "refused"
        THEN Executed(FALSE, <<>>, Text.CouldNotConnect,
                      <<Ev("connect", <<>>)>>)
        ELSE IF db.cursor = "error"
        THEN Executed(TRUE, <<>>, <<>>, opened)
        ELSE IF ~PassesGate(sql_query)
        THEN Executed(FALSE, <<>>, Text.SecurityError,
                      Append(opened, Ev("conn.close", <<>>)))
        ELSE IF db.execute = "mysql_error"
        THEN Executed(FALSE, <<>>,
                      Text.SqlExecutionError \o Sample.DriverMessage,
                      tried \o closed)
        ELSE IF db.execute = "error"
        THEN Executed(FALSE, <<>>,
                      Text.UnexpectedError \o Sample.DriverMessage,
                      tried \o closed)
        ELSE IF db.execute = "no_description"
        THEN Executed(FALSE, <<>>,
                      Text.UnexpectedError \o Text.NoneNotIterable,
                      tried \o closed)
        ELSE Executed(FALSE,
                      [j \in 1..Len(db.rows) |->
                         PyDict(DictOf(Zip(db.description, db.rows[j]), <<>>))],
                      <<>>,
                      Append(tried, Ev("fetchall", <<>>)) \o closed)

\* the memory side at rest
InitNoMemory ==
    /\ mem = [i \in Instances |-> NoObject]
    /\ fs = [p \in Paths |-> NoFile]
    /\ clock = 0
    /\ LLM_CLIENT = TRUE
    /\ ret = Ret("construct", 1, FALSE, PyNone, NoCall, DefaultPath, TRUE)
    /\ hist = [i \in Instances |-> NoHist]
    /\ arg = NoArg
    /\ out = NoOut

\* one call of execute_sql_query
DoExecuteSqlQuery ==
    \E sql_query \in SqlTexts, db \in DbBehaviours :
        LET r == execute_sql_query(sql_query, db)
        IN  /\ res' = [op |-> "execute_sql_query", sql_query |-> sql_query,
                       db |-> db, raised |-> r.raised, results |-> r.results,
                       error |-> r.error]
            /\ events' = r.events
            /\ UNCHANGED <<llm, output_json>>
            /\ UNCHANGED memVars

InitExecutor == InitNoMemory /\ InitNoPipeline

\* calls of the query executor
SpecExecutor == InitExecutor /\ [][DoExecuteSqlQuery]_vars
(***************************************************************************)
(* llm/llm_chain.py: the responses of the reasoning service and the two    *)
(* calls made to it.                                                       *)
(***************************************************************************)

\* the SQL the service wraps in code fences
SqlBodies == {Sample.SqlSelect1, Sample.SqlLowerFromSql, Sample.SqlTwoLines}

\* white space before the opening fence
Leads == { <<>>, <<" ">>, <<"\n">> }

\* what separates the SQL from the closing fence
CloseSeps == { <<"\n">>, <<>> }

\* white space after the closing fence
Trails == { <<>>, <<"\n">>, <<" ">> }

\* a response text with the SQL in code-fence markup
Fenced(lead, open, body, sep, trail) ==
    lead \o open \o <<"\n">> \o body \o sep \o Fence \o trail

FencedTexts ==
    { Fenced(lead, open, body, sep, trail) :
        lead \in Leads, open \in {FenceSql, Fence}, body \in SqlBodies,
        sep \in CloseSeps, trail \in Trails }

\* the outcomes of llm.models.generate_content(...) followed by
\* response.candidates[0].content.parts[0].text: an exception, a text
\* that is None, or a text
Response(kind, text) == [kind |-> kind, text |-> text]

SynthResponses ==
    { Response("raise", <<>>), Response("no_text", <<>>) }
    \cup { Response("text", t) :
             t \in FencedTexts
                   \cup { <<>>, Sample.SqlSelect1, Sample.SqlSelectErrors,
                          Sample.SqlDropTable,
                          Text.QUERY_NOT_POSSIBLE, Sample.SorryNotPossible } }

generate_sql_query(client, response) ==
    IF ~client THEN Text.LlmNotInitialized
    ELSE IF response.kind = "raise" THEN Text.FailedToGenerate
    ELSE IF response.kind = "no_text" THEN Text.QUERY_NOT_POSSIBLE
    ELSE LET generated_query == response.text
             unfenced == IF StartsWith(generated_query, FenceSql)
                         THEN Strip(StripChars(generated_query, FenceSql))
                         ELSE generated_query
             unclosed == IF EndsWith(unfenced, Fence)
                         THEN Strip(StripChars(unfenced, Fence))
                         ELSE unfenced
         IN  IF generated_query = <<>>
                  \/ In(Text.QUERY_NOT_POSSIBLE, generated_query)
             THEN Text.QUERY_NOT_POSSIBLE
             ELSE Strip(unclosed)

\* the value restructure_results returns: a str, or None when the
\* response has no text
restructure_results(client, response) ==
    IF ~client THEN PyStr(Text.LlmNotInitialized)
    ELSE IF response.kind = "raise" THEN PyStr(Text.FailedToRestructure)
    ELSE IF response.kind = "no_text" THEN PyNone
    ELSE PyStr(response.text)

\* the calls the pipeline makes on the reasoning service for one response
LlmCalls(client, user_query) ==
    IF client THEN <<Ev("generate_content", user_query)>> ELSE <<>>

\* one call of generate_sql_query
DoGenerateSqlQuery ==
    \E response \in (IF llm THEN SynthResponses
                     ELSE {Response("raise", <<>>)}) :
        /\ res' = [op |-> "generate_sql_query", response |-> response,
                   value |-> generate_sql_query(llm, response)]
        /\ events' = LlmCalls(llm, Sample.QuestionTop)
        /\ UNCHANGED <<llm, output_json>>
        /\ UNCHANGED memVars

InitGenerate ==
    /\ InitNoMemory
    /\ llm \in BOOLEAN
    /\ output_json = TRUE
    /\ events = <<>>
    /\ res = NoRes

\* calls of the query synthesizer
SpecGenerate == InitGenerate /\ [][DoGenerateSqlQuery]_vars
(***************************************************************************)
(* app/main.py: run_query_pipeline, and ui/streamlit_app.py: main_app.     *)
(***************************************************************************)
\* the synthesizer's responses tried in a run of the pipeline
PipelineSynthResponses ==
    { Response("raise", <<>>), Response("no_text", <<>>) }
    \cup { Response("text", t) :
             t \in { Sample.SqlSelect1, Sample.SqlSelectErrors,
                     Sample.SqlDropTable,
                     Text.QUERY_NOT_POSSIBLE, Sample.SorryNotPossible,
                     Fenced(<<>>, FenceSql, Sample.SqlSelect1, <<"\n">>,
                            <<>>) } }

\* the summarizer's responses
SummaryResponses ==
    { Response("raise", <<>>), Response("no_text", <<>>),
      Response("text", Sample.SummaryText),
      Response("text", Sample.SummaryCannot) }

\* a call that was not made
Unused == Response("unused", <<>>)

\* pd.DataFrame(raw_results)
DataFrame(rows) == [k |-> "df", v |-> rows]

\* the 4-tuple run_query_pipeline returns, with the calls it made
Returned(final_df, summary, error_message, sql_query, evs) ==
    [raised |-> FALSE, results |-> final_df, summary |-> summary,
     error_message |-> error_message, sql_query |-> sql_query, events |-> evs]

\* an exception that leaves run_query_pipeline
Raised(evs) ==
    [raised |-> TRUE, results |-> PyNone, summary |-> PyNone,
     error_message |-> PyNone, sql_query |-> PyNone, events |-> evs]

\* the bug of summarizing whatever the execution returned
PipelineSummarizesErrors(user_question, schema_exists, client, synth, db, summ) ==
    IF ~schema_exists THEN Raised(<<>>)
    ELSE
    LET sql_query == generate_sql_query(client, synth)
        generated == <<Ev("generate_sql_query", user_question)>>
                         \o LlmCalls(client, user_question)
    IN  IF In(Text.T_ERROR, sql_query)
        THEN Returned(PyNone, PyNone,
                      PyStr(Text.SqlGenerationFailed \o sql_query), PyNone,
                      generated)
        ELSE IF sql_query = Text.QUERY_NOT_POSSIBLE
        THEN Returned(PyNone, PyStr(Text.CannotAnswer), PyNone, PyNone,
                      generated)
        ELSE
        LET ex == execute_sql_query(sql_query, db)
            executed == Append(generated, Ev("execute_sql_query", sql_query))
                            \o ex.events
        IN  IF ex.raised THEN Raised(executed)
            ELSE Returned(DataFrame(ex.results),
                          restructure_results(client, summ),
                          IF ex.error # <<>>
                          THEN PyStr(Text.SqlExecutionFailed \o ex.error)
                          ELSE PyNone,
                          PyStr(sql_query),
                          Append(executed,
                                 Ev("restructure_results", user_question))
                              \o LlmCalls(client, user_question))

\* line 37 returns sql_query before it is assigned: UnboundLocalError
run_query_pipeline(user_question, schema_exists, client, synth, db, summ) ==
    IF ~schema_exists THEN Raised(<<>>)
    ELSE
    LET sql_query == generate_sql_query(client, synth)
        generated == <<Ev("generate_sql_query", user_question)>>
                         \o LlmCalls(client, user_question)
    IN  IF In(Text.T_ERROR, sql_query)
        THEN Returned(PyNone, PyNone,
                      PyStr(Text.SqlGenerationFailed \o sql_query), PyNone,
                      generated)
        ELSE IF sql_query = Text.QUERY_NOT_POSSIBLE
        THEN Returned(PyNone, PyStr(Text.CannotAnswer), PyNone, PyNone,
                      generated)
        ELSE
        LET ex == execute_sql_query(sql_query, db)
            executed == Append(generated, Ev("execute_sql_query", sql_query))
                            \o ex.events
        IN  IF ex.raised THEN Raised(executed)
            ELSE IF ex.error # <<>>
            THEN Returned(PyNone, PyNone,
                          PyStr(Text.SqlExecutionFailed \o ex.error), PyNone,
                          executed)
            ELSE Returned(DataFrame(ex.results),
                          restructure_results(client, summ), PyNone,
                          PyStr(sql_query),
                          Append(executed,
                                 Ev("restructure_results", user_question))
                              \o LlmCalls(client, user_question))

\* the bug of showing the unanswerable summary like any other summary
ShownWithoutWarning(r) ==
    IF Truthy(r.error_message) THEN "error"
    ELSE IF r.results # PyNone /\ r.results.v # <<>> THEN "results"
    ELSE IF Truthy(r.summary) THEN "info"
    ELSE "unknown_error"

\* the branch main_app takes on the pipeline's 4-tuple: st.error with
\* "Pipeline Failed", st.warning, the results display, st.info, or st.error
\* with "An unknown error occurred"
Shown(r) ==
    IF Truthy(r.error_message) THEN "error"
    ELSE IF Truthy(r.summary) /\ In(Text.T_cannot_answer, r.summary.v)
    THEN "warning"
    ELSE IF r.results # PyNone /\ r.results.v # <<>> THEN "results"
    ELSE IF Truthy(r.summary) THEN "info"
    ELSE "unknown_error"

\* how the visualization step of the results display ends: nothing to
\* draw, a chart, the helper raising, the generated code failing
VizOutcomes == {"none", "chart", "warning", "render_error"}

NotRun == [raised |-> FALSE, results |-> PyNone, summary |-> PyNone,
           error_message |-> PyNone, sql_query |-> PyNone]

\* what the page shows after one script run
Page(user_query, called, generated, synth, db, summ, run, shown, viz) ==
    [op |-> "main_app", user_query |-> user_query, called |-> called,
     generated |-> generated, synth |-> synth, db |-> db, summ |-> summ,
     run |-> [raised |-> run.raised, results |-> run.results,
              summary |-> run.summary, error_message |-> run.error_message,
              sql_query |-> run.sql_query],
     shown |-> shown, viz |-> viz]

\* one script run of main_app with the button clicked or not
MainApp(clicked, user_query, synth, db, summ, viz) ==
    /\ IF ~(clicked /\ user_query # <<>>)
       THEN /\ res' = Page(user_query, FALSE, <<>>, Unused, NoDb, Unused, NotRun,
                           "nothing", "none")
            /\ events' = <<>>
       ELSE LET run == run_query_pipeline(user_query, output_json, llm,
                                          synth, db, summ)
                generated == IF output_json
                             THEN generate_sql_query(llm, synth) ELSE <<>>
                shown == IF run.raised THEN "exception" ELSE Shown(run)
            IN  /\ res' = Page(user_query, TRUE, generated, synth, db, summ,
                               run, shown, viz)
                /\ events' = IF shown = "results"
                             THEN Append(run.events,
                                    Ev("decide_and_generate_visualization",
                                       user_query))
                             ELSE run.events
    /\ UNCHANGED <<llm, output_json>>
    /\ UNCHANGED memVars

\* the inputs of one script run; a call that is not reached gets no outcome
DoMainApp ==
    \E clicked \in BOOLEAN, user_query \in {<<>>, Sample.QuestionTop} :
      LET called == clicked /\ user_query # <<>> IN
      \E synth \in (IF called /\ output_json /\ llm
                    THEN PipelineSynthResponses ELSE {Unused}) :
        LET sql_query == generate_sql_query(llm, synth)
            executes == /\ called /\ output_json
                        /\ ~In(Text.T_ERROR, sql_query)
                        /\ sql_query # Text.QUERY_NOT_POSSIBLE
        IN
        \E db \in (IF executes THEN DbBehaviours ELSE {NoDb}) :
          LET ex == execute_sql_query(sql_query, db)
              summarizes == executes /\ ~ex.raised /\ ex.error = <<>>
          IN
          \E summ \in (IF summarizes THEN SummaryResponses ELSE {Unused}) :
            \E viz \in (IF /\ summarizes
                           /\ Shown(run_query_pipeline(user_query,
                                  output_json, llm, synth, db, summ))
                                 = "results"
                        THEN VizOutcomes ELSE {"none"}) :
                MainApp(clicked, user_query, synth, db, summ, viz)

InitPipeline ==
    /\ InitNoMemory
    /\ llm \in BOOLEAN
    /\ output_json \in BOOLEAN
    /\ events = <<>>
    /\ res = NoRes

\* requests made through the page
SpecPipeline == InitPipeline /\ [][DoMainApp]_vars

(***************************************************************************)
(* RAG_Structured/app.py: the page script.  Streamlit runs the whole      *)
(* script again on every interaction; st.session_state outlives the runs,  *)
(* st.button is True only in the run that its click caused.  A session    *)
(* key is <<>> while absent and <<value>> once set.                        *)
(***************************************************************************)
\* re.sub(r"^```[a-zA-Z]*|```$", "", text.strip()).strip()
CleanSql(text) ==
    LET s == Strip(text)
        Letters == Range(UpperCase) \cup Range(LowerCase)
        rest == SubSeq(s, 4, Len(s))
        n == CHOOSE m \in 0..Len(rest) :
                /\ \A i \in 1..m : rest[i] \in Letters
                /\ (m < Len(rest) => rest[m + 1] \notin Letters)
        opened == IF StartsWith(s, Fence)
                  THEN SubSeq(rest, n + 1, Len(rest)) ELSE s
        closed == IF EndsWith(opened, Fence)
                  THEN SubSeq(opened, 1, Len(opened) - 3) ELSE opened
    IN  Strip(closed)

\* the SQL responses of the reasoning service to the page
RagSqlResponses ==
    { Response("raise", <<>>), Response("text", Sample.SqlSelect1),
      Response("text", Fenced(<<>>, FenceSql, Sample.SqlSelect1, <<"\n">>,
                              <<>>)) }

\* one run of the script: started is FALSE when the run ends in step 2 or
\* step 5 (no database, schema analysis failing), before the session code
RagScript(started, clicked, typed, sql, read, summ) ==
    LET session == res.session
        submitted == IF ~started THEN session.query_submitted
                     ELSE IF clicked THEN <<TRUE>>
                     ELSE IF session.query_submitted = <<>> THEN <<FALSE>>
                     ELSE session.query_submitted
        question == IF started /\ clicked THEN <<typed>>
                    ELSE session.user_question
        ran == started /\ submitted = <<TRUE>> /\ question[1] # <<>>
        clean_sql == CleanSql(sql.text)
        calls == IF ~ran THEN <<>>
                 ELSE IF sql.kind = "raise"
                 THEN <<Ev("generate_content", question[1])>>
                 ELSE IF read = "error"
                 THEN <<Ev("generate_content", question[1]),
                        Ev("read_sql_query", clean_sql)>>
                 ELSE <<Ev("generate_content", question[1]),
                        Ev("read_sql_query", clean_sql),
                        Ev("generate_content", <<>>)>>
        shown == IF ~started THEN "stopped"
                 ELSE IF ~ran THEN "nothing"
                 ELSE IF sql.kind = "raise" THEN "exception"
                 ELSE IF read = "error" \/ summ.kind = "raise" THEN "error"
                 ELSE "summary"
    IN  /\ res.scripts < MaxScripts
        /\ res' = [op |-> "rag_app",
                   session |-> [query_submitted |-> submitted,
                                user_question |-> question],
                   clicked |-> clicked, ran |-> ran, shown |-> shown,
                   scripts |-> res.scripts + 1,
                   clicks |-> res.clicks + (IF clicked THEN 1 ELSE 0),
                   runs |-> res.runs + (IF ran THEN 1 ELSE 0)]
        /\ events' = calls
        /\ UNCHANGED <<llm, output_json>>
        /\ UNCHANGED memVars

\* the interactions that cause a run: a click of the button, or anything
\* else (the text box edited, the page reloaded in the same session)
DoRagScript ==
    \E started, clicked \in BOOLEAN, typed \in {<<>>, Sample.QuestionTop},
       sql \in RagSqlResponses, read \in {"ok", "error"},
       summ \in {Response("raise", <<>>), Response("text", Sample.SummaryText)} :
        RagScript(started, clicked, typed, sql, read, summ)

\* a new browser session: nothing in st.session_state
InitRag ==
    /\ InitNoMemory
    /\ llm = TRUE
    /\ output_json = TRUE
    /\ events = <<>>
    /\ res = [op |-> "rag_app",
              session |-> [query_submitted |-> <<>>, user_question |-> <<>>],
              clicked |-> FALSE, ran |-> FALSE, shown |-> "nothing",
              scripts |-> 0, clicks |-> 0, runs |-> 0]

SpecRag == InitRag /\ [][DoRagScript]_vars

(***************************************************************************)
(* RAG__Structured/app.py: the page script with the follow-up chat.  The   *)
(* chart suggestion is a JSON text at the level of tokens; a code fence    *)
(* and a word of prose are tokens that are not JSON.  memory_str is the    *)
(* sequence of the blocks written into it: empty is the empty string.      *)
(***************************************************************************)
\* the keys and the chart types of a suggestion
Vis ==
    [ chart_type |-> <<"c","h","a","r","t","_","t","y","p","e">>,
      x_axis |-> <<"x","_","a","x","i","s">>,
      y_axis |-> <<"y","_","a","x","i","s">>,
      none |-> <<"n","o","n","e">>,
      bar |-> <<"b","a","r">> ]

\* the chart suggestions of the reasoning service
VisTexts ==
    LET bar == json_dump(PyDict(<< <<Vis.chart_type, PyStr(Vis.bar)>>,
                                   <<Vis.x_axis, PyStr(<<"a">>)>>,
                                   <<Vis.y_axis, PyStr(<<"b">>)>> >>))
    IN  { bar,
          <<Punct("fence_json")>> \o bar \o <<Punct("fence")>>,
          json_dump(PyDict(<< <<Vis.chart_type, PyStr(Vis.none)>> >>)),
          json_dump(PyList(<<>>)),
          SubSeq(bar, 1, Len(bar) - 1),
          <<Tok("word", <<"S","u","r","e">>)>> \o bar,
          <<>> }

\* the bug of letting the decoder's error leave the visualization step
ChartSuggestionStrict(vis_text) ==
    LET parsed == json_load(SelectSeq(vis_text,
                        LAMBDA tk : tk.t \notin {"fence_json", "fence"}))
    IN  [raised |-> ~parsed.ok, malformed |-> ~parsed.ok,
         vis_json |-> parsed.val]

\* json.loads(re.sub(r"```json|```", "", vis_text).strip()), and the
\* fallback on json.JSONDecodeError
ChartSuggestion(vis_text) ==
    LET parsed == json_load(SelectSeq(vis_text,
                        LAMBDA tk : tk.t \notin {"fence_json", "fence"}))
    IN  [raised |-> FALSE, malformed |-> ~parsed.ok,
         vis_json |-> IF parsed.ok THEN parsed.val
                      ELSE PyDict(<< <<Vis.chart_type, PyStr(Vis.none)>> >>)]

\* what the page draws for a suggestion over a frame with the text column
\* a and the int64 column b; "error" is an exception reaching the handler
\* of step 6
Chart(vis_json) ==
    LET get(key, default) ==
            IF \E i \in 1..Len(vis_json.v) : vis_json.v[i][1] = key
            THEN Get(vis_json, key) ELSE default
        chart_type == get(Vis.chart_type, PyStr(Vis.none))
        x_axis == get(Vis.x_axis, PyNone)
        y_axis == get(Vis.y_axis, PyNone)
        columns == {PyStr(<<"a">>), PyStr(<<"b">>)}
    IN  IF vis_json.k # "dict" THEN "error"
        ELSE IF \/ chart_type = PyStr(Vis.none)
                \/ ~Truthy(x_axis) \/ ~Truthy(y_axis)
                \/ x_axis \notin columns \/ y_axis \notin columns
        THEN "info"
        ELSE IF y_axis # PyStr(<<"b">>) THEN "warning"
        ELSE IF chart_type = PyStr(Vis.bar) THEN "bar_chart"
        ELSE "no_chart"

\* one block of memory_str
Block(tag, question, sql, text, df) ==
    [tag |-> tag, question |-> question, sql |-> sql, text |-> text,
     df |-> df]

NoSubmission ==
    [user_question |-> <<>>, sql |-> Unused, read |-> "none",
     summ |-> Unused, vis |-> Response("unused", <<>>)]

\* the bug of keeping the earlier thread when a new query is submitted
ChatScriptKeepsThread(started, form, typed, sql, read, summ, vis, answer) ==
    LET memory == IF res.memory_str = <<>> THEN <<>> ELSE res.memory_str[1]
        submit_sql == form = "sql" /\ typed # <<>>
        clean_sql == CleanSql(sql.text)
        suggestion == ChartSuggestion(vis.text)
        failed == \/ sql.kind = "raise" \/ read = "error"
                  \/ /\ read = "rows"
                     /\ \/ summ.kind = "raise" \/ vis.kind = "raise"
                        \/ suggestion.raised
                        \/ Chart(suggestion.vis_json) = "error"
        summary_text == IF read = "empty" THEN Text.NoData
                        ELSE Strip(summ.text)
        thread == Block("thread", typed, clean_sql, summary_text, read)
        after6 == IF ~submit_sql THEN memory
                  ELSE IF failed THEN memory
                  ELSE Append(memory, thread)
        submit_chat == form = "chat" /\ typed # <<>> /\ after6 # <<>>
        answered == submit_chat /\ answer.kind # "raise"
        after7 == IF answered
                  THEN Append(after6, Block("follow_up", typed, <<>>,
                                            Strip(answer.text), "none"))
                  ELSE after6
    IN  /\ res.scripts < MaxChatScripts
        /\ form = "sql" => (res.scripts > 0 /\ res.shown # "stopped")
        /\ form = "chat" => res.chat_form
        /\ res' = IF ~started
                  THEN [res EXCEPT !.scripts = @ + 1, !.form = form,
                                   !.shown = "stopped", !.chart = "none",
                                   !.chat_form = FALSE,
                                   !.submission = NoSubmission]
                  ELSE [op |-> "chat_app", memory_str |-> <<after7>>,
                        chat_form |-> after6 # <<>>, form |-> form,
                        shown |-> IF submit_sql
                                  THEN (IF failed THEN "error" ELSE "results")
                                  ELSE IF answered THEN "answer"
                                  ELSE IF submit_chat THEN "exception"
                                  ELSE "nothing",
                        chart |-> IF submit_sql /\ ~failed /\ read = "rows"
                                  THEN Chart(suggestion.vis_json)
                                  ELSE "none",
                        submission |->
                            IF submit_sql
                            THEN [user_question |-> typed, sql |-> sql,
                                  read |-> read, summ |-> summ, vis |-> vis]
                            ELSE NoSubmission,
                        scripts |-> res.scripts + 1]
        /\ events' = IF started /\ submit_chat
                     THEN <<Ev("generate_content", after6)>> ELSE <<>>
        /\ UNCHANGED <<llm, output_json>>
        /\ UNCHANGED memVars

\* one run of the script: started is FALSE when the run ends in step 4
\* (st.stop()); form is the form whose button caused the run, typed the
\* text of its input
ChatScript(started, form, typed, sql, read, summ, vis, answer) ==
    LET memory == IF res.memory_str = <<>> THEN <<>> ELSE res.memory_str[1]
        submit_sql == form = "sql" /\ typed # <<>>
        clean_sql == CleanSql(sql.text)
        suggestion == ChartSuggestion(vis.text)
        failed == \/ sql.kind = "raise" \/ read = "error"
                  \/ /\ read = "rows"
                     /\ \/ summ.kind = "raise" \/ vis.kind = "raise"
                        \/ suggestion.raised
                        \/ Chart(suggestion.vis_json) = "error"
        summary_text == IF read = "empty" THEN Text.NoData
                        ELSE Strip(summ.text)
        thread == Block("thread", typed, clean_sql, summary_text, read)
        after6 == IF ~submit_sql THEN memory
                  ELSE IF failed THEN <<>>
                  ELSE <<thread>>
        submit_chat == form = "chat" /\ typed # <<>> /\ after6 # <<>>
        answered == submit_chat /\ answer.kind # "raise"
        after7 == IF answered
                  THEN Append(after6, Block("follow_up", typed, <<>>,
                                            Strip(answer.text), "none"))
                  ELSE after6
    IN  /\ res.scripts < MaxChatScripts
        /\ form = "sql" => (res.scripts > 0 /\ res.shown # "stopped")
        /\ form = "chat" => res.chat_form
        /\ res' = IF ~started
                  THEN [res EXCEPT !.scripts = @ + 1, !.form = form,
                                   !.shown = "stopped", !.chart = "none",
                                   !.chat_form = FALSE,
                                   !.submission = NoSubmission]
                  ELSE [op |-> "chat_app", memory_str |-> <<after7>>,
                        chat_form |-> after6 # <<>>, form |-> form,
                        shown |-> IF submit_sql
                                  THEN (IF failed THEN "error" ELSE "results")
                                  ELSE IF answered THEN "answer"
                                  ELSE IF submit_chat THEN "exception"
                                  ELSE "nothing",
                        chart |-> IF submit_sql /\ ~failed /\ read = "rows"
                                  THEN Chart(suggestion.vis_json)
                                  ELSE "none",
                        submission |->
                            IF submit_sql
                            THEN [user_question |-> typed, sql |-> sql,
                                  read |-> read, summ |-> summ, vis |-> vis]
                            ELSE NoSubmission,
                        scripts |-> res.scripts + 1]
        /\ events' = IF started /\ submit_chat
                     THEN <<Ev("generate_content", after6)>> ELSE <<>>
        /\ UNCHANGED <<llm, output_json>>
        /\ UNCHANGED memVars

\* the interactions that cause a run; a call that is not reached gets no
\* outcome
DoChatScript ==
    \E started \in BOOLEAN, form \in {"none", "sql", "chat"},
       typed \in {<<>>, Sample.QuestionTop} :
      LET submit_sql == started /\ form = "sql" /\ typed # <<>>
          submit_chat == started /\ form = "chat" /\ typed # <<>>
      IN
      \E sql \in (IF submit_sql THEN RagSqlResponses ELSE {Unused}) :
        \E read \in (IF submit_sql /\ sql.kind # "raise"
                     THEN {"error", "empty", "rows"} ELSE {"none"}) :
          \E summ \in (IF read = "rows"
                       THEN {Response("raise", <<>>),
                             Response("text", Sample.SummaryText)}
                       ELSE {Unused}) :
            \E vis \in (IF read = "rows" /\ summ.kind # "raise"
                        THEN {Response("raise", <<>>)}
                                 \cup {Response("text", t) : t \in VisTexts}
                        ELSE {Response("unused", <<>>)}) :
              \E answer \in (IF submit_chat
                             THEN {Response("raise", <<>>),
                                   Response("text", Sample.SummaryText)}
                             ELSE {Unused}) :
                ChatScript(started, form, typed, sql, read, summ, vis, answer)

\* a new browser session: nothing in st.session_state, no form drawn
InitChat ==
    /\ InitNoMemory
    /\ llm = TRUE
    /\ output_json = TRUE
    /\ events = <<>>
    /\ res = [op |-> "chat_app", memory_str |-> <<>>, chat_form |-> FALSE,
              form |-> "none", shown |-> "nothing", chart |-> "none",
              submission |-> NoSubmission, scripts |-> 0]

SpecChat == InitChat /\ [][DoChatScript]_vars

(***************************************************************************)
(* Properties.                                                             *)
(***************************************************************************)
Entries == mem[1]._entries.v

\* the records a new object would load from the default path
FileRecords(files) == Range(_load(files[DefaultPath], "ok").v)

\* the question_tokens of a stored record, as a token list
TokensOf(r) ==
    LET ts == Get(r, K_question_tokens).v
    IN  [j \in 1..Len(ts) |-> ts[j].v]

\* C1: after each store on an object constructed over an absent file, the
\* number of records in memory is at most max_entries, for every
\* max_entries >= 0.
C1_LengthWithinCapacity ==
    (ret.op = "store" /\ ~hist[1].existed)
        => Len(Entries) <= mem[1].max_entries

\* C2: with capacity c >= 1, after N > c stores into an initially empty
\* memory exactly the last c stored records remain, in order and unchanged.
C2_FifoEviction ==
    LET c == mem[1].max_entries
        N == Len(hist[1].stored)
    IN  (hist[1].loaded = PyList(<<>>) /\ c >= 1 /\ N > c)
            => Entries = SubSeq(hist[1].stored, N - c + 1, N)

C2_Witness ==
    /\ mem[1].max_entries = 2
    /\ Len(hist[1].stored) = 3
    /\ Entries = SubSeq(hist[1].stored, 2, 3)
    /\ Get(Entries[1], K_question) # Get(Entries[2], K_question)

\* C3: an object constructed (its read succeeding) right after a store whose
\* write succeeded, over the same path, holds the same sequence of records
\* as the object that stored: same question, sql_query, summary, results.
C3_RoundTrip ==
    [][(ret.op = "store" /\ ret.io /\ ret'.op = "construct" /\ ret'.io
        /\ ret'.path = ret.path)
           => mem'[1]._entries = mem[1]._entries]_vars

C3_Witness ==
    /\ ret.op = "construct" /\ ret.io
    /\ fs[ret.path].exists
    /\ fs[ret.path].data = json_dump(mem[1]._entries)
    /\ Len(Entries) = 2
    /\ \E j \in 1..2 : Get(Entries[j], K_sql_query) = PyNone
    /\ \E j \in 1..2 : Len(Get(Entries[j], K_results).v) = 2

\* C4: find_similar decides hits locally by token-set Jaccard similarity: a
\* question with similarity >= 1/2 to a stored record's question_tokens gets
\* that record's cached summary, and a question sharing no token with any
\* stored question gets None.
C4_LocalJaccardRecall ==
    ret.op = "find_similar" =>
        LET q == _normalize_text(ret.call.question)
            AtLeastHalf(r) ==
                2 * _jaccard_similarity(q, TokensOf(r)).num
                    >= _jaccard_similarity(q, TokensOf(r)).den
            Disjoint(r) == Range(q) \cap Range(TokensOf(r)) = {}
        IN  /\ (\E j \in 1..Len(Entries) : AtLeastHalf(Entries[j]))
                  => \E j \in 1..Len(Entries) :
                        /\ AtLeastHalf(Entries[j])
                        /\ ret.value.k = "dict"
                        /\ Get(ret.value, K_summary)
                              = Get(Entries[j], K_summary)
            /\ (\A j \in 1..Len(Entries) : Disjoint(Entries[j]))
                  => ret.value = PyNone

\* C5: find_similar never raises: whatever fails in the recall path (client
\* not initialised, file absent, file unreadable, service call failing or
\* answering without text), it returns None.
C5_FindSimilarNeverRaises ==
    ret.op = "find_similar" => ~ret.raised

\* C6: find_similar changes neither the in-memory records nor any file,
\* whatever its outcome; a step that changes either is a store.
C6_FindSimilarReadOnly ==
    [][/\ ret'.op = "find_similar" => (mem' = mem /\ fs' = fs)
       /\ (mem' # mem \/ fs' # fs) => ret'.op = "store"]_vars

C6_Witness ==
    /\ ret.op = "find_similar"
    /\ ret.value # PyNone
    /\ Len(Entries) >= 1
    /\ fs[ret.path].exists
    /\ json_load(fs[ret.path].data).ok

\* C7 as stated: after a store whose write failed, store has not raised,
\* the new record is the last in memory and stays in memory for every later
\* operation, and it enters the file only by a later store that writes.
C7_KeptForAllLaterOperations ==
    [][/\ (ret'.op = "store" /\ ~ret'.io)
            => (~ret'.raised /\ Len(mem'[1]._entries.v) > 0)
       /\ (ret.op = "store" /\ ~ret.io /\ Len(Entries) > 0)
            => Contains(mem'[1]._entries.v, Last(Entries))
       /\ \A e \in Range(mem'[1]._entries.v) :
            (e \notin FileRecords(fs) /\ e \in FileRecords(fs'))
                => (ret'.op = "store" /\ ret'.io)]_vars

\* C7 as amended: after a store whose write failed, store has not raised and
\* the new record is the last in memory; a record leaves memory only by a
\* later store that takes the number of records past max_entries, oldest
\* first; and a record enters the file only by a store that writes.
C7_KeptUntilEvicted ==
    [][/\ (ret'.op = "store" /\ ~ret'.io)
            => /\ ~ret'.raised
               /\ Len(mem'[1]._entries.v) > 0
               /\ Last(mem'[1]._entries.v) = NewEntry(ret'.call, clock)
       /\ \A j \in 1..Len(Entries) :
            ~Contains(mem'[1]._entries.v, Entries[j])
                => /\ ret'.op = "store"
                   /\ mem[1].max_entries >= 1
                   /\ j <= Len(Entries) + 1 - mem[1].max_entries
       /\ \A e \in Range(mem'[1]._entries.v) :
            (e \notin FileRecords(fs) /\ e \in FileRecords(fs'))
                => (ret'.op = "store" /\ ret'.io)]_vars

C7_Witness ==
    /\ ret.op = "store" /\ ~ret.io /\ ~ret.raised
    /\ Len(Entries) = 2
    /\ Last(Entries) = NewEntry(ret.call, clock - 1)
    /\ fs[DefaultPath].exists
    /\ FileRecords(fs) = {Entries[1]}

\* C8: after a store whose write succeeded the file decodes to exactly the
\* in-memory sequence; the new record is last, its question_tokens are the
\* normalisation of its question and its results are the given rows, or an
\* empty list when none were given.
C8_FileHoldsStore ==
    (ret.op = "store" /\ ret.io) =>
        /\ fs[ret.path].exists
        /\ json_load(fs[ret.path].data).ok
        /\ json_load(fs[ret.path].data).val = mem[1]._entries
        /\ Len(Entries) > 0
        /\ Get(Last(Entries), K_question) = PyStr(ret.call.question)
        /\ TokensOf(Last(Entries)) = _normalize_text(ret.call.question)
        /\ Get(Last(Entries), K_results)
              = (IF ret.call.results = PyNone THEN PyList(<<>>)
                 ELSE ret.call.results)

C8_Witness ==
    /\ ret.op = "store" /\ ret.io
    /\ mem[1].max_entries = 2
    /\ Len(hist[1].stored) = 3
    /\ Len(Entries) = 2
    /\ json_load(fs[ret.path].data).val = mem[1]._entries
    /\ ret.call.results = PyNone
    /\ Get(Last(Entries), K_results) = PyList(<<>>)

\* C9: Jaccard similarity is symmetric, reflexive and bounded by 0 and 1,
\* for all token lists, empty ones included.
C9_JaccardLaws ==
    out.done =>
        /\ out.ab = out.ba
        /\ out.aa.num = out.aa.den
        /\ out.ab.den > 0
        /\ 0 <= out.ab.num /\ out.ab.num <= out.ab.den

C9_Witness ==
    /\ out.done
    /\ Len(arg.a) = 2 /\ arg.a[1] = arg.a[2]
    /\ Len(arg.b) = 2 /\ arg.b[1] # arg.b[2]
    /\ out.ab.num = 1 /\ out.ab.den = 2
    /\ out.aa.num = 1 /\ out.aa.den = 1

\* C10: normalising the space-joined tokens of a normalised question gives
\* the same tokens again.
C10_NormalizeIdempotent ==
    out.done => out.again = out.tokens

C10_Witness ==
    /\ out.done
    /\ \E j \in 1..Len(arg.a) : arg.a[j] = "I"
    /\ \E j \in 1..Len(arg.a) : arg.a[j] = "."
    /\ Len(out.tokens) = 2
    /\ out.again = out.tokens

\* C11: for every statement whose text, trimmed and upper-cased, does not
\* begin with SELECT or WITH, execute_sql_query never calls cursor.execute
\* and returns no rows, and once it holds a connection and a cursor it
\* returns the SECURITY ERROR outcome; a statement that begins with SELECT
\* or WITH, in any letter case and after any leading white space, passes
\* the gate: it is the statement handed to cursor.execute.
C11_GateRejectsNonReadOnly ==
    res.op = "execute_sql_query" =>
        LET t == res.sql_query
            BeginsAt(n, word) ==
                /\ n + Len(word) - 1 <= Len(t)
                /\ Upper(SubSeq(t, n, n + Len(word) - 1)) = word
            begins ==
                \E n \in 1..Len(t) :
                    /\ \A j \in 1..(n - 1) : t[j] \in Whitespace
                    /\ t[n] \notin Whitespace
                    /\ (BeginsAt(n, Text.T_SELECT) \/ BeginsAt(n, Text.T_WITH))
            reached == res.db.connect = "ok" /\ res.db.cursor = "ok"
            executed == {events[j].arg : j \in {k \in 1..Len(events) :
                                                   events[k].call = "execute"}}
        IN  /\ ~begins => (executed = {} /\ res.results = <<>>)
            /\ (~begins /\ reached)
                  => (~res.raised /\ res.error = Text.SecurityError)
            /\ (begins /\ reached)
                  => (res.error # Text.SecurityError /\ executed = {t})

C11_Witness ==
    /\ res.op = "execute_sql_query"
    /\ res.sql_query = Sample.SqlDropTable
    /\ res.db.connect = "ok" /\ res.db.cursor = "ok"
    /\ Len(res.db.rows) > 0
    /\ res.error = Text.SecurityError
    /\ res.results = <<>>
    /\ \A j \in 1..Len(events) : events[j].call # "execute"

\* C12: every statement handed to cursor.execute is read-only: its leading
\* keyword (the first word of the trimmed, upper-cased text) is SELECT or
\* WITH, and no further statement follows a ';'.
C12_OnlyReadOnlyForwarded ==
    \A j \in 1..Len(events) :
        events[j].call = "execute" =>
            LET s == Upper(Strip(events[j].arg))
                WordChars == Range(UpperCase) \cup Range(DigitChars) \cup {"_"}
                n == CHOOSE m \in 0..Len(s) :
                        /\ \A i \in 1..m : s[i] \in WordChars
                        /\ (m < Len(s) => s[m + 1] \notin WordChars)
                keyword == SubSeq(s, 1, n)
                further ==
                    \E i \in 1..Len(s) :
                        /\ s[i] = ";"
                        /\ \E k \in (i + 1)..Len(s) : s[k] \notin Whitespace
            IN  keyword \in {Text.T_SELECT, Text.T_WITH} /\ ~further

\* C13: execute_sql_query never raises, whatever the statement and whatever
\* the database does; it returns either an empty error with one mapping per
\* row fetched, in order, or a non-empty error.
C13_ExecutorNeverRaises ==
    res.op = "execute_sql_query" =>
        /\ ~res.raised
        /\ res.error = <<>> =>
              /\ Len(res.results) = Len(res.db.rows)
              /\ \A j \in 1..Len(res.results) :
                    /\ res.results[j].k = "dict"
                    /\ \A c \in 1..Len(res.db.description) :
                          \E p \in 1..Len(res.results[j].v) :
                              res.results[j].v[p][1] = res.db.description[c]

\* C14: when the response wraps the SQL in code fences (an opening ```sql or
\* ``` line and a closing ```, with or without white space around them),
\* generate_sql_query returns exactly the SQL between the fences: no fence
\* character is left and no character of the SQL is removed.
C14_FencesStripped ==
    (res.op = "generate_sql_query" /\ llm /\ res.response.kind = "text") =>
        \A lead \in Leads, open \in {FenceSql, Fence}, body \in SqlBodies,
           sep \in CloseSeps, trail \in Trails :
            res.response.text = Fenced(lead, open, body, sep, trail)
                => (res.value = body /\ Backtick \notin Range(res.value))

\* C15: the pipeline tells sentinels from SQL by exact match: it reports a
\* generation failure only when the synthesizer's output is one of its error
\* sentinels, reports 'unanswerable' only when it is QUERY_NOT_POSSIBLE,
\* and hands every other output to execute_sql_query.
C15_SentinelsByExactMatch ==
    (res.op = "main_app" /\ res.called /\ ~res.run.raised /\ output_json) =>
        LET failed == /\ Truthy(res.run.error_message)
                      /\ StartsWith(res.run.error_message.v,
                                    Text.SqlGenerationFailed)
            unanswerable == res.run.summary = PyStr(Text.CannotAnswer)
            handed == {events[j].arg : j \in {k \in 1..Len(events) :
                           events[k].call = "execute_sql_query"}}
        IN  /\ failed <=> res.generated \in {Text.LlmNotInitialized,
                                              Text.FailedToGenerate}
            /\ unanswerable <=> res.generated = Text.QUERY_NOT_POSSIBLE
            /\ (~failed /\ ~unanswerable) => handed = {res.generated}

\* C16: a request consults the conversation memory before the synthesizer
\* is called, and on a miss stores a record once summarization succeeded:
\* the first call of a request is find_similar, and a request that went
\* through synthesis, execution and summarization ends with store.
C16_RecallFirstStoreLast ==
    (res.op = "main_app" /\ res.called /\ ~res.run.raised) =>
        /\ events # <<>>
        /\ events[1].call = "find_similar"
        /\ \A j \in 1..Len(events) :
              events[j].call = "restructure_results"
                  => \E k \in (j + 1)..Len(events) : events[k].call = "store"

\* C17: run_query_pipeline never raises: on every path, the schema file
\* being absent included, it returns its 4-tuple.
C17_PipelineNeverRaises ==
    (res.op = "main_app" /\ res.called) => ~res.run.raised

\* C18: when the reasoning service fails during an LLM call of a request
\* (synthesis or summarization), run_query_pipeline returns a non-empty
\* error_message, and the call is made once.
C18_LlmFailureIsTerminal ==
    (res.op = "main_app" /\ res.called /\ ~res.run.raised
        /\ (res.synth.kind = "raise" \/ res.summ.kind = "raise")) =>
        /\ Truthy(res.run.error_message)
        /\ Cardinality({j \in 1..Len(events) :
                           events[j].call = "generate_content"}) <= 2
        /\ \A j \in 1..(Len(events) - 1) :
              ~(events[j].call = "generate_content"
                  /\ events[j + 1].call = "generate_content")

\* C19: when the synthesizer returns the unanswerable sentinel the pipeline
\* executes no SQL, returns error_message None and the 'cannot answer ...
\* please rephrase' summary, and the page shows it as a warning.
C19_UnanswerableIsWarning ==
    (res.op = "main_app" /\ res.called /\ ~res.run.raised
        /\ res.generated = Text.QUERY_NOT_POSSIBLE) =>
        /\ \A j \in 1..Len(events) :
              events[j].call \notin {"execute_sql_query", "connect", "execute"}
        /\ res.run.error_message = PyNone
        /\ res.run.summary = PyStr(Text.CannotAnswer)
        /\ In(Text.T_cannot_answer, res.run.summary.v)
        /\ In(<<"P","l","e","a","s","e"," ","r","e","p","h","r","a","s","e">>,
              res.run.summary.v)
        /\ res.run.results = PyNone /\ res.run.sql_query = PyNone
        /\ res.shown = "warning"

C19_Witness ==
    /\ res.op = "main_app" /\ res.called /\ ~res.run.raised
    /\ res.synth = Response("text", Sample.SorryNotPossible)
    /\ res.generated = Text.QUERY_NOT_POSSIBLE
    /\ res.run.summary = PyStr(Text.CannotAnswer)
    /\ res.shown = "warning"
    /\ Len(events) = 2

\* C20: two objects over the same file that loaded the same content and
\* then stored one record each leave, after the last writer's write, a file
\* that holds the last writer's entries only: what it had loaded and its
\* new record, and not the record of the earlier writer.
C20_LastWriterWins ==
    \A i \in Instances :
        LET o == 3 - i IN
        (/\ ret.op = "store" /\ ret.inst = i /\ ret.io
         /\ hist[1].loaded = hist[2].loaded
         /\ Len(hist[i].stored) = 1 /\ Len(hist[o].stored) = 1) =>
            /\ json_load(fs[DefaultPath].data).ok
            /\ json_load(fs[DefaultPath].data).val = mem[i]._entries
            /\ hist[i].stored[1] \in FileRecords(fs)
            /\ hist[o].stored[1] \notin FileRecords(fs)
            /\ FileRecords(fs)
                  \subseteq Range(hist[i].loaded.v) \cup {hist[i].stored[1]}

C20_Witness ==
    /\ ret.op = "store" /\ ret.inst = 2 /\ ret.io
    /\ Len(hist[1].stored) = 1 /\ Len(hist[2].stored) = 1
    /\ Len(hist[1].loaded.v) = 1 /\ hist[2].loaded = hist[1].loaded
    /\ mem[1].max_entries = 2 /\ mem[2].max_entries = 2
    /\ Contains(mem[1]._entries.v, hist[1].stored[1])
    /\ FileRecords(fs) = {EarlierRecord, hist[2].stored[1]}
    /\ hist[1].stored[1] \notin FileRecords(fs)

\* C21: the first call of get_memory constructs the object from its
\* arguments and loads the file; every later call returns that same object
\* unchanged and reads no file, whatever path and max_entries it passes;
\* the cached object never changes its path or capacity.
C21_LazySingleton ==
    [][/\ ret'.op = "get_memory" =>
            /\ ret'.inst = 2
            /\ mem'[2].constructed
            /\ IF mem[2].constructed
               THEN mem' = mem /\ hist' = hist /\ ~ret'.io
               ELSE /\ mem'[2].path = ret'.path
                    /\ ret'.io => mem'[2]._entries = _load(fs[ret'.path], "ok")
       /\ mem[2].constructed =>
            /\ mem'[2].constructed
            /\ mem'[2].path = mem[2].path
            /\ mem'[2].max_entries = mem[2].max_entries]_vars

C21_Witness ==
    /\ ret.op = "get_memory" /\ ~ret.io
    /\ ret.path # mem[2].path
    /\ fs[ret.path].exists
    /\ mem[2]._entries # _load(fs[ret.path], "ok")

\* C22: once the construction of an object over an existing file has
\* completed, the object holds at most max_entries records.
C22_LoadWithinCapacity ==
    (ret.op = "construct" /\ hist[1].existed)
        => Len(Entries) <= mem[1].max_entries

\* C23: for every statement whose leading keyword (the first word of the
\* trimmed, upper-cased text) is not SELECT or WITH, execute_sql_query
\* returns the SECURITY ERROR outcome, whatever the database does, also
\* when no connection can be established.
C23_RejectionWhateverTheDatabase ==
    res.op = "execute_sql_query" =>
        LET s == Upper(Strip(res.sql_query))
            WordChars == Range(UpperCase) \cup Range(DigitChars) \cup {"_"}
            n == CHOOSE m \in 0..Len(s) :
                    /\ \A i \in 1..m : s[i] \in WordChars
                    /\ (m < Len(s) => s[m + 1] \notin WordChars)
            keyword == SubSeq(s, 1, n)
        IN  keyword \notin {Text.T_SELECT, Text.T_WITH}
                => (~res.raised /\ res.error = Text.SecurityError)

\* C24 (as stated): the question_tokens of every stored record holds only
\* lower-case alphanumeric tokens longer than one character that are not
\* stop-words, and no token occurs more than once.
C24_TokenSet ==
    \A j \in 1..Len(Entries) :
        LET ts == TokensOf(Entries[j])
        IN  /\ \A k \in 1..Len(ts) :
                  /\ Len(ts[k]) > 1
                  /\ ts[k] \notin stopwords
                  /\ \A c \in 1..Len(ts[k]) :
                        ts[k][c] \in Range(LowerCase) \cup Range(DigitChars)
            /\ \A k, l \in 1..Len(ts) : ts[k] = ts[l] => k = l

\* C24 (amended): the question_tokens of every stored record is the list
\* of the normalized tokens of its question, in the order of the question:
\* every token is lower-case alphanumeric, longer than one character and
\* not a stop-word; a word the question repeats is listed once per
\* occurrence.
C24_TokenList ==
    \A j \in 1..Len(Entries) :
        LET ts == TokensOf(Entries[j])
            words == Split(StripPunct(Lower(Get(Entries[j], K_question).v)))
        IN  /\ \A k \in 1..Len(ts) :
                  /\ Len(ts[k]) > 1
                  /\ ts[k] \notin stopwords
                  /\ \A c \in 1..Len(ts[k]) :
                        ts[k][c] \in Range(LowerCase) \cup Range(DigitChars)
            /\ \A w \in Range(words) :
                  Cardinality({k \in 1..Len(ts) : ts[k] = w})
                      = IF Len(w) > 1 /\ w \notin stopwords
                        THEN Cardinality({k \in 1..Len(words) : words[k] = w})
                        ELSE 0

C24_Witness ==
    /\ ret.op = "store"
    /\ \E j \in 1..Len(Entries) :
          LET ts == TokensOf(Entries[j])
          IN  \E k, l \in 1..Len(ts) : k # l /\ ts[k] = ts[l]
    /\ \E j \in 1..Len(Entries) :
          /\ \E c \in Range(Get(Entries[j], K_question).v) :
                c \in Range(UpperCase)
          /\ TokensOf(Entries[j]) # <<>>

\* C27: run_query_pipeline guards each stage by the previous one:
\* execute_sql_query is called, after the synthesizer and with its output,
\* only when that output is neither an error sentinel nor
\* QUERY_NOT_POSSIBLE; restructure_results is called only after an
\* execution that returned an empty error; and every return with a
\* non-empty error_message has results, summary and sql_query None.
C27_StagesGuarded ==
    (res.op = "main_app" /\ res.called) =>
        LET At(call) == {j \in 1..Len(events) : events[j].call = call}
            ex == execute_sql_query(res.generated, res.db)
        IN  /\ \A j \in At("execute_sql_query") :
                  /\ \E k \in At("generate_sql_query") : k < j
                  /\ events[j].arg = res.generated
                  /\ res.generated \notin {Text.LlmNotInitialized,
                                           Text.FailedToGenerate,
                                           Text.QUERY_NOT_POSSIBLE}
            /\ \A j \in At("restructure_results") :
                  /\ \E k \in At("execute_sql_query") : k < j
                  /\ ~ex.raised /\ ex.error = <<>>
            /\ (~res.run.raised /\ Truthy(res.run.error_message)) =>
                  /\ res.run.results = PyNone
                  /\ res.run.summary = PyNone
                  /\ res.run.sql_query = PyNone

C27_Witness ==
    /\ res.op = "main_app" /\ res.called /\ ~res.run.raised
    /\ res.generated = Sample.SqlSelect1
    /\ res.db.execute = "mysql_error"
    /\ \E j \in 1..Len(events) : events[j].call = "execute_sql_query"
    /\ \A j \in 1..Len(events) : events[j].call # "restructure_results"
    /\ res.run.error_message
          = PyStr(Text.SqlExecutionFailed \o Text.SqlExecutionError
                      \o Sample.DriverMessage)
    /\ res.run.results = PyNone /\ res.run.summary = PyNone
    /\ res.run.sql_query = PyNone

\* C28: on every path on which execute_sql_query returns with a connection
\* it opened (security rejection, successful execution, SQL execution
\* error, unexpected error) the connection has been closed: conn.close is
\* called once, after every other call made on the connection and cursor.
C28_ConnectionClosed ==
    (res.op = "execute_sql_query" /\ ~res.raised /\ res.db.connect = "ok") =>
        LET closes == {j \in 1..Len(events) : events[j].call = "conn.close"}
        IN  /\ Cardinality({j \in 1..Len(events) :
                               events[j].call = "connect"}) = 1
            /\ closes = {Len(events)}
            /\ res.error \in {Text.SecurityError, <<>>,
                              Text.SqlExecutionError \o Sample.DriverMessage,
                              Text.UnexpectedError \o Sample.DriverMessage,
                              Text.UnexpectedError \o Text.NoneNotIterable}

C28_Witness ==
    /\ res.op = "execute_sql_query" /\ ~res.raised
    /\ res.db.execute = "error"
    /\ res.error = Text.UnexpectedError \o Sample.DriverMessage
    /\ \E j \in 1..Len(events) : events[j].call = "execute"
    /\ events[Len(events)].call = "conn.close"

\* C29: find_similar recalls from the file at the path it is given and
\* from nothing else: when it calls the reasoning service, the context it
\* sends is the content of that file as it is at the call; when that file
\* is absent (or cannot be used) no call is made and nothing is recalled,
\* whatever records the object holds in memory.
C29_RecallFromFileOnly ==
    ret.op = "find_similar" =>
        /\ Len(events) <= 1
        /\ \A j \in 1..Len(events) :
              /\ events[j].call = "generate_content"
              /\ fs[ret.path].exists
              /\ events[j].arg = fs[ret.path].data
        /\ events = <<>> => ret.value = PyNone
        /\ ret.io <=> events # <<>>

C29_Witness ==
    /\ ret.op = "find_similar" /\ ret.io
    /\ Len(Entries) = 1
    /\ events = <<Ev("generate_content", fs[ret.path].data)>>
    /\ events[1].arg # json_dump(mem[1]._entries)
    /\ _load(fs[ret.path], "ok") # mem[1]._entries

\* C26: the pipeline runs once per click of 'Generate & Run SQL Query': a
\* run of the script that was not caused by a click of the button does not
\* run the pipeline, so the pipeline has run at most once per click.
C26_OncePerClick ==
    res.op = "rag_app" =>
        /\ res.ran => res.clicked
        /\ res.runs <= res.clicks

\* C25: when the chart suggestion of the reasoning service is not valid
\* JSON the request is not aborted: the suggestion falls back to
\* chart_type 'none', no chart is drawn, and memory_str is recorded with
\* the question, the SQL and the summary.
C25_MalformedSuggestionRecovered ==
    (/\ res.op = "chat_app" /\ res.form = "sql"
     /\ res.submission.vis.kind = "text"
     /\ ChartSuggestion(res.submission.vis.text).malformed) =>
        /\ res.shown = "results"
        /\ res.chart = "info"
        /\ ChartSuggestion(res.submission.vis.text).vis_json
              = PyDict(<< <<Vis.chart_type, PyStr(Vis.none)>> >>)
        /\ res.memory_str
              = << <<Block("thread", res.submission.user_question,
                           CleanSql(res.submission.sql.text),
                           Strip(res.submission.summ.text), "rows")>> >>

C25_Witness ==
    /\ res.op = "chat_app" /\ res.form = "sql"
    /\ res.submission.vis.kind = "text"
    /\ res.submission.vis.text # <<>>
    /\ res.submission.vis.text[1] = Punct("{")
    /\ ~json_load(res.submission.vis.text).ok
    /\ res.shown = "results" /\ res.chart = "info"
    /\ Len(res.memory_str[1]) = 1
    /\ res.memory_str[1][1].question = Sample.QuestionTop
    /\ res.memory_str[1][1].sql = Sample.SqlSelect1
    /\ res.memory_str[1][1].text = Sample.SummaryText

\* C30: the follow-up chat is offered only while memory_str is non-empty
\* and a follow-up is answered from memory_str; a new SQL submission
\* clears memory_str before anything else, so a failing submission leaves
\* it empty and a successful one leaves the new thread alone; an answered
\* follow-up only appends to memory_str; nothing else changes it.
C30_MemoryStrLifecycle ==
    [][res'.op = "chat_app" =>
         LET old == IF res.memory_str = <<>> THEN <<>> ELSE res.memory_str[1]
             new == IF res'.memory_str = <<>> THEN <<>>
                    ELSE res'.memory_str[1]
         IN  /\ res'.chat_form => new # <<>>
             /\ (res'.shown # "stopped" /\ new # <<>>) => res'.chat_form
             /\ events' # <<>> =>
                   /\ res.chat_form /\ old # <<>>
                   /\ events'[1].arg = old
             /\ res'.shown = "error" => new = <<>>
             /\ res'.shown = "results" =>
                   /\ Len(new) = 1
                   /\ new[1].tag = "thread"
                   /\ new[1].question = res'.submission.user_question
             /\ res'.shown = "answer" =>
                   /\ Len(new) = Len(old) + 1
                   /\ SubSeq(new, 1, Len(old)) = old
                   /\ new[Len(new)].tag = "follow_up"
             /\ res'.shown \in {"nothing", "exception", "stopped"} =>
                   new = old]_vars

C30_Witness ==
    /\ res.op = "chat_app" /\ res.form = "chat" /\ res.shown = "answer"
    /\ res.chat_form
    /\ Len(res.memory_str[1]) = 2
    /\ res.memory_str[1][1].tag = "thread"
    /\ res.memory_str[1][2].tag = "follow_up"
    /\ events = <<Ev("generate_content", <<res.memory_str[1][1]>>)>>

====
